---- MODULE Spec2Model ----
(***************************************************************************)
(* Model of pyHanko's revision-aware cross-reference cache                 *)
(* (pdf_utils/reader.py) and of the authentication state machines of its   *)
(* security handlers (pdf_utils/crypt.py).                                 *)
(***************************************************************************)
EXTENDS Integers, Sequences, FiniteSets, TLC

(***************************************************************************)
(* Bounds of the model                                                     *)
(***************************************************************************)
\* largest number of xref sections (revisions) in a file
MaxSections == 3
\* largest number of xref entries in a file, over all its sections
MaxEntries == 3
\* largest number of malformed startxref / /Prev pointers in a file
MaxMalformed == 1
\* largest number of lookups on a finished cache that leave a trace in it
MaxQueries == 1

\* object ids, generations and "next generation" fields that occur in entries
Ids == {1, 2}
Gens == {0, 1}
NextGens == {0, 1, 2}
\* the (id, next generation) pairs of free entries: those of the objects, and
\* the head of the free list, object 0 with generation 65535
FreeEntries == {<<0, 65535>>} \cup (Ids \X NextGens)
\* object streams named by compressed entries: (stream id, index in stream)
ObjStreams == {<<1, 0>>}

(***************************************************************************)
(* Python values                                                           *)
(***************************************************************************)
\* dict: a function with a finite domain
EmptyDict == [k \in {} |-> 0]
Put(d, k, v) == [x \in (DOMAIN d) \cup {k} |-> IF x = k THEN v ELSE d[x]]
Del(d, k) == [x \in (DOMAIN d) \ {k} |-> d[x]]

\* generic.Reference(idnum, generation)
Reference(idnum, generation) == [idnum |-> idnum, generation |-> generation]

\* what an xref lookup yields: a byte offset, an (object stream, index) pair,
\* or the NullObject() that free_ref stores
Offset(start) == [kind |-> "offset", a |-> start, b |-> 0]
StreamMarker(num, ix) == [kind |-> "objstm", a |-> num, b |-> ix]
NullObject == [kind |-> "null", a |-> 0, b |-> 0]

\* the result of a call that may raise: the state it leaves and whether it raised
Ok(c) == [x |-> c, raised |-> FALSE]
Raise(c) == [x |-> c, raised |-> TRUE]

(***************************************************************************)
(* State                                                                   *)
(***************************************************************************)
VARIABLES
    pc,         \* position of PdfFileReader._read_xrefs
    xrefs,      \* the XRefCache object (a record of its fields)
    startxref,  \* local of _read_xrefs: pointer to the next section, -1 = None
    kind,       \* "table" | "stream": how the file writes its xref sections
    file,       \* the sections read so far, newest first
    cur,        \* the entries read so far of the section being read
    sh,         \* a StandardSecurityHandler (a record of its fields)
    cf,         \* the handler's crypt filters, by name (records of fields)
    pkh,        \* a PubKeySecurityHandler: its crypt filters and defaults
    last,       \* the latest call on the handler or a filter, and its result
    made        \* what was fed to the builder, and the calls made so far
                \* (reader: the startxref and /Prev pointers the file holds)

vars == <<pc, xrefs, startxref, kind, file, cur, sh, cf, pkh, last, made>>

\* the variables of the cross-reference reader and those of the handlers
xvars == <<pc, xrefs, startxref, kind, file, cur>>
cvars == <<sh, cf, pkh, last, made>>

\* the value of a variable while the object it describes does not exist
Unused == <<>>

\* the file offset at which the section that is parsed k-th (k = 0: newest) lies
SectionLocation(k) == 1000 - 100 * k
\* the byte offset named by the entry at position p of the k-th parsed section
EntryOffset(k, p) == 10 * (k + 1) + p

\* XRefCache.__init__
XRefCacheInit ==
    [ xref_sections |-> 0,
      xref_locations |-> <<>>,
      in_obj_stream |-> EmptyDict,
      standard_xrefs |-> EmptyDict,
      last_change |-> EmptyDict,
      history |-> EmptyDict,
      current_section_ids |-> {},
      current_section_freed |-> {},
      refs_by_section |-> <<>>,
      freed_by_section |-> <<>>,
      generations |-> EmptyDict,
      previous_expected_free |-> EmptyDict,
      xref_container_info |-> <<>>,
      obj_streams_by_revision |-> EmptyDict ]

(***************************************************************************)
(* XRefCache: building                                                     *)
(***************************************************************************)
\* XRefCache._next_section
next_section(c) ==
    [c EXCEPT !.xref_sections = @ + 1,
              !.refs_by_section = Append(@, c.current_section_ids),
              !.current_section_ids = {},
              !.freed_by_section = Append(@, c.current_section_freed),
              !.current_section_freed = {}]

\* XRefCache.used_later
used_later(c, idnum, generation) ==
    IF idnum \in DOMAIN c.generations
    THEN generation \in c.generations[idnum]
    ELSE FALSE

\* history[key].append(item) on a defaultdict(list)
HistoryAppend(h, key, item) ==
    Put(h, key, Append(IF key \in DOMAIN h THEN h[key] ELSE <<>>, item))

\* XRefCache.free_ref
free_ref(c, idnum, next_generation) ==
    IF idnum = 0 THEN Ok(c)
    ELSE
    LET prev_generation ==
            IF next_generation # 0 THEN next_generation - 1 ELSE 65535
        null_ref == Reference(idnum, prev_generation)
        c1 == [c EXCEPT
                 !.standard_xrefs = Put(@, <<prev_generation, idnum>>, NullObject),
                 !.current_section_freed = @ \cup {null_ref},
                 !.current_section_ids = @ \cup {null_ref}]
        conflict ==
            /\ idnum \in DOMAIN c1.generations
            /\ \E gen \in c1.generations[idnum] : gen <= prev_generation
        c2 == IF idnum \notin DOMAIN c1.generations
              THEN [c1 EXCEPT !.generations = Put(@, idnum, {prev_generation})]
              ELSE [c1 EXCEPT !.generations =
                                Put(@, idnum, @[idnum] \cup {prev_generation})]
        c3 == IF idnum \notin DOMAIN c2.last_change
              THEN [c2 EXCEPT !.last_change = Put(@, idnum, c2.xref_sections)]
              ELSE c2
        awaited == idnum \in DOMAIN c3.previous_expected_free
        c4 == [c3 EXCEPT !.previous_expected_free = Del(@, idnum)]
    IN  IF conflict THEN Raise(c1)
        ELSE IF awaited /\ c3.previous_expected_free[idnum] # next_generation
             THEN Raise(c4)
             ELSE Ok(c4)

\* XRefCache.put_ref
put_ref(c, idnum, generation, start) ==
    IF idnum \in DOMAIN c.previous_expected_free THEN Raise(c)
    ELSE IF generation > 65535 THEN Raise(c)
    ELSE
    LET c1 == IF generation > 0
              THEN [c EXCEPT !.previous_expected_free = Put(@, idnum, generation)]
              ELSE c
        c2 == IF ~used_later(c1, idnum, generation)
              THEN [c1 EXCEPT
                      !.standard_xrefs = Put(@, <<generation, idnum>>, Offset(start)),
                      !.last_change = Put(@, idnum, c1.xref_sections),
                      !.generations = Put(@, idnum, {generation})]
              ELSE [c1 EXCEPT
                      !.generations = Put(@, idnum, @[idnum] \cup {generation})]
        c3 == [c2 EXCEPT
                 !.history = HistoryAppend(@, <<generation, idnum>>,
                                           <<c2.xref_sections, Offset(start)>>),
                 !.current_section_ids = @ \cup {Reference(idnum, generation)}]
    IN  Ok(c3)

\* XRefCache.put_obj_stream_ref
put_obj_stream_ref(c, idnum, obj_stream_num, obj_stream_ix) ==
    LET sec == c.xref_sections
        marker == StreamMarker(obj_stream_num, obj_stream_ix)
        c1 == [c EXCEPT !.obj_streams_by_revision =
                 Put(@, sec, (IF sec \in DOMAIN @ THEN @[sec] ELSE {})
                             \cup {Reference(obj_stream_num, 0)})]
        c2 == IF ~used_later(c1, idnum, 0)
              THEN [c1 EXCEPT
                      !.in_obj_stream = Put(@, idnum, marker),
                      !.last_change = Put(@, idnum, sec),
                      !.generations = Put(@, idnum, {0})]
              ELSE c1
        c3 == [c2 EXCEPT
                 !.history = HistoryAppend(@, <<0, idnum>>, <<sec, marker>>),
                 !.current_section_ids = @ \cup {Reference(idnum, 0)}]
    IN  Ok(c3)

(***************************************************************************)
(* XRefCache: queries                                                      *)
(***************************************************************************)
\* XRefCache.total_revisions
total_revisions(c) == c.xref_sections

\* mutant: the revision is used as the storage index, without reversal
explicit_refs_unreversed(c, revision) ==
    c.refs_by_section[revision + 1]

\* XRefCache.explicit_refs_in_revision
explicit_refs_in_revision(c, revision) ==
    c.refs_by_section[(c.xref_sections - 1 - revision) + 1]

\* XRefCache.refs_freed_in_revision
refs_freed_in_revision(c, revision) ==
    c.freed_by_section[(c.xref_sections - 1 - revision) + 1]

\* the error result of a lookup
PdfReadError == [kind |-> "PdfReadError", a |-> 0, b |-> 0]

\* the first (rev_index, marker) of hist, from position i on, with
\* revision >= max_index - rev_index
RECURSIVE HistoryScan(_, _, _, _)
HistoryScan(hist, i, revision, max_index) ==
    IF i > Len(hist) THEN PdfReadError
    ELSE IF revision >= max_index - hist[i][1] THEN hist[i][2]
    ELSE HistoryScan(hist, i + 1, revision, max_index)

\* mutant: the newest section is taken to have index xref_sections
get_historical_ref_off_by_one(c, ref, revision) ==
    LET max_index == c.xref_sections
        ix == <<ref.generation, ref.idnum>>
        hist == IF ix \in DOMAIN c.history THEN c.history[ix] ELSE <<>>
    IN  HistoryScan(hist, 1, revision, max_index)

\* XRefCache.get_historical_ref (its result)
get_historical_ref(c, ref, revision) ==
    LET max_index == c.xref_sections - 1
        ix == <<ref.generation, ref.idnum>>
        hist == IF ix \in DOMAIN c.history THEN c.history[ix] ELSE <<>>
    IN  HistoryScan(hist, 1, revision, max_index)

\* self.history[ix] on a defaultdict(list): a key that is looked up and
\* missing is inserted with an empty list
history_getitem(c, ix) ==
    IF ix \in DOMAIN c.history THEN c
    ELSE [c EXCEPT !.history = Put(@, ix, <<>>)]

\* self._obj_streams_by_revision[sec] on a defaultdict(set)
obj_streams_getitem(c, sec) ==
    IF sec \in DOMAIN c.obj_streams_by_revision THEN c
    ELSE [c EXCEPT !.obj_streams_by_revision = Put(@, sec, {})]

\* XRefCache.__getitem__
xref_getitem(c, ref) ==
    IF ref.generation = 0 /\ ref.idnum \in DOMAIN c.in_obj_stream
    THEN c.in_obj_stream[ref.idnum]
    ELSE IF <<ref.generation, ref.idnum>> \in DOMAIN c.standard_xrefs
    THEN c.standard_xrefs[<<ref.generation, ref.idnum>>]
    ELSE PdfReadError

\* XRefCache.get_last_change (v), or the KeyError of its dict lookup
get_last_change(c, idnum) ==
    IF idnum \in DOMAIN c.last_change
    THEN [raised |-> FALSE, v |-> c.xref_sections - 1 - c.last_change[idnum]]
    ELSE [raised |-> TRUE, v |-> 0]

\* HistoricalResolver.is_ref_available, for the resolver of this revision
is_ref_available(c, ref, revision) ==
    get_historical_ref(c, ref, revision) = PdfReadError

\* the empty entries that lookups have left in the cache's defaultdicts
Traces(c) ==
    Cardinality({ix \in DOMAIN c.history : c.history[ix] = <<>>})
    + Cardinality({sec \in DOMAIN c.obj_streams_by_revision :
                      c.obj_streams_by_revision[sec] = {}})

(***************************************************************************)
(* PdfFileReader._read_xrefs, one step per loop iteration and xref entry   *)
(***************************************************************************)
\* how far a pointer may lie from the section it is meant for: on it, off by
\* one (on the second byte of the 'xref' keyword of a table, on the white
\* space before the object number of a stream), or far before it, in bytes
\* that are neither digits nor 'xref'
Far == -20
PointerDeltas(k) == IF k = "table" THEN {0, 1, Far} ELSE {0, -1, Far}

\* the number of pointers in ptrs (newest first) that miss their section
Malformed(ptrs) ==
    Cardinality({i \in 1..Len(ptrs) : ptrs[i] # SectionLocation(i - 1)})

\* the pointers of a file whose writer made no mistake: startxref, and the
\* /Prev of each section but the oldest
WellFormed == [i \in 1..MaxSections |-> SectionLocation(i - 1)]

\* the pointers a file of this kind may hold
PointerLists(k) ==
    {ptrs \in [1..MaxSections ->
                 {SectionLocation(i) + d : i \in 0..(MaxSections - 1),
                                           d \in PointerDeltas(k)}] :
        /\ \A i \in 1..MaxSections :
               ptrs[i] - SectionLocation(i - 1) \in PointerDeltas(k)
        /\ Malformed(ptrs) <= MaxMalformed}

\* a reader at the start of _read_xrefs, on a file with these pointers
Start(ptrs) ==
    /\ pc = "locate"
    /\ xrefs = XRefCacheInit
    /\ made = ptrs
    /\ startxref = ptrs[1]
    /\ file = <<>>
    /\ cur = <<>>
    /\ sh = Unused /\ cf = Unused /\ pkh = Unused
    /\ last = Unused

\* the files whose pointers are well formed
Init ==
    /\ kind \in {"table", "stream"}
    /\ Start(WellFormed)

EntriesRead ==
    Len(cur) + (IF file = <<>> THEN 0
                ELSE LET RECURSIVE Sum(_)
                         Sum(i) == IF i = 0 THEN 0
                                   ELSE Len(file[i].entries) + Sum(i - 1)
                     IN Sum(Len(file)))

\* tmp.find(b"xref") on the 20 bytes from ptr - 10 on, when the only 'xref'
\* keyword near ptr is the one at byte at (-1: not found)
xref_loc(ptr, at) ==
    IF ptr - 10 <= at /\ at + 4 <= ptr + 10 THEN at - (ptr - 10) ELSE -1

\* the first look in range(5) with a digit at ptr + look, when the only
\* digits near ptr are those of the object number at byte at (-1: none)
FirstDigit(ptr, at) ==
    IF at - ptr \in 0..4 THEN at - ptr ELSE -1

\* one iteration of the while loop up to the section's first entry: log the
\* pointer and look at the byte there; on a byte that starts no section,
\* search nearby and go round again with the pointer found, or raise
Locate ==
    /\ pc = "locate"
    /\ Len(file) < MaxSections
    /\ LET at == SectionLocation(Len(file))
           logged == [xrefs EXCEPT !.xref_locations = Append(@, startxref)]
       IN  IF startxref = at
           THEN /\ xrefs' = [logged EXCEPT
                               !.xref_container_info =
                                   IF kind = "stream"
                                   THEN Append(@, <<"stream", startxref>>)
                                   ELSE @]
                /\ pc' = "entries"
                /\ UNCHANGED startxref
           ELSE IF kind = "table" /\ xref_loc(startxref, at) # -1
           THEN /\ xrefs' = logged
                /\ startxref' = startxref - (10 - xref_loc(startxref, at))
                /\ pc' = "locate"
           ELSE IF kind = "stream" /\ FirstDigit(startxref, at) # -1
           THEN /\ xrefs' = logged
                /\ startxref' = startxref + FirstDigit(startxref, at)
                /\ pc' = "locate"
           ELSE /\ pc' = "error"
                /\ UNCHANGED <<xrefs, startxref>>
    /\ UNCHANGED <<kind, file, cur>>
    /\ UNCHANGED cvars

\* after a call on the cache: continue, or leave read() by the exception (the
\* reader under construction, and its cache, are then discarded)
Continue(res, entry) ==
    IF res.raised
    THEN /\ pc' = "error"
         /\ UNCHANGED <<xrefs, startxref, kind, file, cur>>
    ELSE /\ xrefs' = res.x
         /\ pc' = "entries"
         /\ cur' = Append(cur, entry)
         /\ UNCHANGED <<startxref, kind, file>>

CanRead ==
    /\ pc = "entries"
    /\ EntriesRead < MaxEntries

\* an 'n' line of a table, or a type 1 entry of a stream
ReadInUse ==
    /\ CanRead
    /\ UNCHANGED cvars
    /\ \E idnum \in Ids, generation \in Gens :
        LET start == EntryOffset(Len(file), Len(cur))
        IN Continue(put_ref(xrefs, idnum, generation, start),
                    [type |-> "n", id |-> idnum, gen |-> generation,
                     marker |-> Offset(start)])

\* a type 2 entry of a stream
ReadCompressed ==
    /\ CanRead
    /\ UNCHANGED cvars
    /\ kind = "stream"
    /\ \E idnum \in Ids, s \in ObjStreams :
        Continue(put_obj_stream_ref(xrefs, idnum, s[1], s[2]),
                 [type |-> "c", id |-> idnum, gen |-> 0,
                  marker |-> StreamMarker(s[1], s[2])])

\* an 'f' line of a table, or a type 0 entry of a stream
ReadFree ==
    /\ CanRead
    /\ UNCHANGED cvars
    /\ \E f \in FreeEntries :
        Continue(free_ref(xrefs, f[1], f[2]),
                 [type |-> "f", id |-> f[1], gen |-> f[2],
                  marker |-> NullObject])

\* mutant: the orphan check is left out
OrphanCheckSkipped(c) == FALSE

\* the orphan check after the loop of _read_xrefs
OrphanCheck(c) == c.previous_expected_free # EmptyDict

\* the end of a section: _next_section, the container info of a table, and
\* the trailer's /Prev; without /Prev the loop ends and the orphan check runs
EndSection ==
    /\ pc = "entries"
    /\ UNCHANGED cvars
    /\ LET c1 == next_section(xrefs)
           c2 == IF kind = "table"
                 THEN [c1 EXCEPT !.xref_container_info =
                                   Append(@, <<"table", startxref>>)]
                 ELSE c1
           sec == [loc |-> startxref, kind |-> kind, entries |-> cur]
       IN /\ xrefs' = c2
          /\ file' = Append(file, sec)
          /\ cur' = <<>>
          /\ UNCHANGED kind
          /\ \/ /\ Len(file) + 1 < MaxSections
                /\ startxref' = made[Len(file) + 2]
                /\ pc' = "locate"
             \/ /\ startxref' = -1
                /\ pc' = IF OrphanCheck(c2) THEN "error" ELSE "done"

\* a lookup on the finished cache leaves this cache behind
Queried(c) ==
    /\ Traces(c) <= MaxQueries
    /\ xrefs' = c
    /\ UNCHANGED <<pc, startxref, kind, file, cur>>
    /\ UNCHANGED cvars

\* xrefs.get_historical_ref(ref, revision), also as called by
\* HistoricalResolver.is_ref_available(ref) and by get_object(ref, revision)
GetHistoricalRef ==
    /\ pc = "done"
    /\ \E idnum \in Ids, generation \in Gens \cup {65535} :
        Queried(history_getitem(xrefs, <<generation, idnum>>))

\* xrefs.get_introducing_revision(ref)
GetIntroducingRevision ==
    /\ pc = "done"
    /\ \E idnum \in Ids, generation \in Gens \cup {65535} :
        Queried(history_getitem(xrefs, <<generation, idnum>>))

\* xrefs.object_streams_used_in(revision), also as called by
\* HistoricalResolver.object_streams_used()
ObjectStreamsUsedIn ==
    /\ pc = "done"
    /\ \E revision \in 0..(xrefs.xref_sections - 1) :
        Queried(obj_streams_getitem(xrefs, xrefs.xref_sections - 1 - revision))

\* the lookups that index a list or a plain dict: __getitem__,
\* get_last_change, explicit_refs_in_revision, refs_freed_in_revision,
\* get_startxref_for_revision, get_xref_container_info
Lookup ==
    /\ pc = "done"
    /\ Queried(xrefs)

Next ==
    \/ Locate
    \/ ReadInUse
    \/ ReadCompressed
    \/ ReadFree
    \/ EndSection

Spec == Init /\ [][Next]_vars

\* the files whose pointers may be malformed
InitReader ==
    /\ kind \in {"table", "stream"}
    /\ \E ptrs \in PointerLists(kind) : Start(ptrs)

\* reading a file, and the lookups on the cache once it is built
NextReader ==
    \/ Locate
    \/ ReadInUse
    \/ ReadCompressed
    \/ ReadFree
    \/ EndSection
    \/ GetHistoricalRef
    \/ GetIntroducingRevision
    \/ ObjectStreamsUsedIn
    \/ Lookup

SpecReader == InitReader /\ [][NextReader]_vars


(***************************************************************************)
(* The file as written: revisions, oldest = 0                              *)
(***************************************************************************)
\* references as the data model has them: id >= 1 (object 0 heads the free list)
Refs == {Reference(i, g) : i \in Ids, g \in Gens \cup {65535}}

\* the section written by revision r
SectionOfRevision(r) == file[Len(file) - r]

\* the generation that a free entry with this next_generation frees
FreedGeneration(next_generation) ==
    IF next_generation = 0 THEN 65535 ELSE next_generation - 1

\* the reference an entry is about
EntryRef(e) ==
    IF e.type = "f" THEN Reference(e.id, FreedGeneration(e.gen))
    ELSE Reference(e.id, e.gen)

\* section sec holds an in-use or compressed entry for ref
Records(sec, ref) ==
    \E i \in 1..Len(sec.entries) :
        /\ sec.entries[i].type \in {"n", "c"}
        /\ EntryRef(sec.entries[i]) = ref

\* the marker section sec gives ref (its first entry for ref)
MarkerIn(sec, ref) ==
    LET i == CHOOSE i \in 1..Len(sec.entries) :
                /\ sec.entries[i].type \in {"n", "c"}
                /\ EntryRef(sec.entries[i]) = ref
                /\ \A j \in 1..(i - 1) :
                     ~(/\ sec.entries[j].type \in {"n", "c"}
                       /\ EntryRef(sec.entries[j]) = ref)
    IN  sec.entries[i].marker

\* the parse succeeded: _read_xrefs returned without raising
Parsed == pc = "done"

(***************************************************************************)
(* C1: sneaky-reuse detection                                              *)
(***************************************************************************)
\* the file frees generation g' of an id in one revision and holds an in-use
\* or compressed entry of that id with a generation <= g' in a newer one
SneakyReuse ==
    \E older \in 1..Len(file), newer \in 1..Len(file) :
        /\ newer < older
        /\ \E i \in 1..Len(file[older].entries),
              j \in 1..Len(file[newer].entries) :
            LET f == file[older].entries[i]
                u == file[newer].entries[j]
            IN  /\ f.type = "f"
                /\ u.type \in {"n", "c"}
                /\ f.id # 0
                /\ u.id = f.id
                /\ u.gen <= FreedGeneration(f.gen)

\* C1: after any successful parse, no generation of an id occurs in a
\* revision newer than one that freed an equal or higher generation
\* (a file with such a reuse makes parsing raise PdfReadError).
C1_SneakyReuseRejected == Parsed => ~SneakyReuse

(***************************************************************************)
(* C2: orphan detection                                                    *)
(***************************************************************************)
\* all entries of the file in the order in which they are parsed
RECURSIVE Flatten(_, _)
Flatten(f, k) ==
    IF k > Len(f) THEN <<>> ELSE f[k].entries \o Flatten(f, k + 1)

ParsedEntries == Flatten(file, 1) \o cur

\* the in-use entry at position p of es (generation > 0) is matched by a free
\* entry of the same id with next_generation = its generation, parsed after it
Matched(es, p) ==
    \E q \in (p + 1)..Len(es) :
        /\ es[q].type = "f"
        /\ es[q].id = es[p].id
        /\ es[q].gen = es[p].gen

\* the generation the id of the entry at position q awaits when that entry is
\* parsed: that of the last in-use entry with generation > 0 before q, unless
\* a free entry of the id came in between (-1: none awaited)
Awaited(es, q) ==
    LET before == {p \in 1..(q - 1) : es[p].id = es[q].id /\
                     \/ es[p].type = "f"
                     \/ es[p].type = "n" /\ es[p].gen > 0}
    IN  IF before = {} THEN -1
        ELSE LET p == CHOOSE p \in before : \A o \in before : o <= p
             IN  IF es[p].type = "n" THEN es[p].gen ELSE -1

\* C2: read() succeeds only if every in-use entry with generation > 0 is
\* matched by a free entry of the same id with next_generation = generation
\* that is parsed after it, and no free entry names a next_generation other
\* than the one awaited; otherwise PdfReadError is raised.
C2_OrphansRejected ==
    Parsed =>
        LET es == ParsedEntries
        IN  /\ \A p \in 1..Len(es) :
                 (es[p].type = "n" /\ es[p].gen > 0) => Matched(es, p)
            /\ \A q \in 1..Len(es) :
                 (es[q].type = "f" /\ Awaited(es, q) # -1)
                     => es[q].gen = Awaited(es, q)

\* C2 witness: a parsed file with an in-use entry of generation > 0
C2_Witness ==
    /\ Parsed
    /\ \E p \in 1..Len(ParsedEntries) :
         ParsedEntries[p].type = "n" /\ ParsedEntries[p].gen > 0

(***************************************************************************)
(* C3: historical lookup                                                   *)
(***************************************************************************)
\* the sections of revisions <= r that record ref (as indices of file)
RecordingSections(ref, r) ==
    {k \in (Len(file) - r)..Len(file) : Records(file[k], ref)}

\* the marker most recently written for ref in a revision <= r
LastWritten(ref, r) ==
    LET ks == RecordingSections(ref, r)
    IN  IF ks = {} THEN PdfReadError
        ELSE MarkerIn(file[CHOOSE k \in ks : \A o \in ks : k <= o], ref)

\* C3: for every reference and revision r, get_historical_ref returns the
\* marker written for ref by the newest section of a revision <= r that
\* records ref, and raises PdfReadError when there is none.
C3_HistoricalRef ==
    Parsed =>
        \A ref \in Refs, r \in 0..(total_revisions(xrefs) - 1) :
            get_historical_ref(xrefs, ref, r) = LastWritten(ref, r)

\* C3 witness: a reference written in two revisions and looked up at a
\* revision between them, and a lookup that finds nothing
C3_Witness ==
    /\ Parsed
    /\ Len(file) = 3
    /\ \E ref \in Refs :
        /\ Records(file[1], ref) /\ Records(file[3], ref)
        /\ ~Records(file[2], ref)
        /\ get_historical_ref(xrefs, ref, 1) = MarkerIn(file[3], ref)
        /\ get_historical_ref(xrefs, ref, 2) = MarkerIn(file[1], ref)
        /\ MarkerIn(file[1], ref) # MarkerIn(file[3], ref)
    /\ \E ref \in Refs : get_historical_ref(xrefs, ref, 2) = PdfReadError

(***************************************************************************)
(* C4: per-revision sets                                                   *)
(***************************************************************************)
\* the references with an entry of one of the types in section sec
WrittenIn(sec, types) ==
    {ref \in Refs : \E i \in 1..Len(sec.entries) :
        /\ sec.entries[i].type \in types
        /\ EntryRef(sec.entries[i]) = ref}

\* C4: for every revision r, explicit_refs_in_revision(r) is exactly the set
\* of references with an in-use, compressed or free entry in the section
\* written by revision r, and refs_freed_in_revision(r) exactly those freed
\* by that section.
C4_RefsByRevision ==
    Parsed =>
        \A r \in 0..(total_revisions(xrefs) - 1) :
            /\ explicit_refs_in_revision(xrefs, r) \cap Refs
                 = WrittenIn(SectionOfRevision(r), {"n", "c", "f"})
            /\ refs_freed_in_revision(xrefs, r) \cap Refs
                 = WrittenIn(SectionOfRevision(r), {"f"})

\* C4 witness: a reference written at revisions 0 and 2 and not at 1, and a
\* revision that frees a reference
C4_Witness ==
    /\ Parsed
    /\ total_revisions(xrefs) = 3
    /\ \E ref \in Refs :
        /\ ref \in explicit_refs_in_revision(xrefs, 0)
        /\ ref \in explicit_refs_in_revision(xrefs, 2)
        /\ ref \notin explicit_refs_in_revision(xrefs, 1)
    /\ \E r \in 0..2 : refs_freed_in_revision(xrefs, r) # {}

(***************************************************************************)
(* C15: is_ref_available                                                   *)
(***************************************************************************)
\* HistoricalResolver.get_object(ref) of the resolver of this revision reads
\* an object: the id has a last change, and the marker it looks up (in the
\* newest revision if the last change is not after this revision, in the
\* history otherwise) is a byte offset or a place in an object stream
Resolves(c, ref, revision) ==
    LET last_change == get_last_change(c, ref.idnum)
    IN  /\ ~last_change.raised
        /\ LET marker == IF last_change.v <= revision
                         THEN xref_getitem(c, ref)
                         ELSE get_historical_ref(c, ref, revision)
           IN  marker.kind \in {"offset", "objstm"}

\* is_ref_available(ref) at revision r is True exactly when no section of a
\* revision <= r holds an in-use or compressed entry for ref
RefAvailableIffUnrecorded ==
    Parsed =>
        \A ref \in Refs, r \in 0..(total_revisions(xrefs) - 1) :
            is_ref_available(xrefs, ref, r) <=> (RecordingSections(ref, r) = {})

C16_ImmutableAfterRead == [][Parsed => xrefs' = xrefs]_vars

(***************************************************************************)
(* C17: put_ref on an id that awaits its freeing instruction               *)
(***************************************************************************)
\* C17: put_ref(id, gen, offset) on an id that awaits a freeing instruction
\* for generation g records the entry without error if g = gen, and raises
\* PdfReadError if g # gen; an object of generation > 0 written with the
\* same generation in two successive revisions does not make parsing fail.
C17_PutRefAwaited ==
    pc = "entries" =>
        \A idnum \in DOMAIN xrefs.previous_expected_free, generation \in Gens :
            LET res == put_ref(xrefs, idnum, generation,
                               EntryOffset(Len(file), Len(cur)))
            IN  IF xrefs.previous_expected_free[idnum] = generation
                THEN /\ ~res.raised
                     /\ Reference(idnum, generation)
                            \in res.x.current_section_ids
                ELSE res.raised

(***************************************************************************)
(* C18: one logged pointer and one container info per section              *)
(***************************************************************************)
\* XRefCache.get_startxref_for_revision
get_startxref_for_revision(c, revision) ==
    c.xref_locations[(c.xref_sections - 1 - revision) + 1]

\* XRefCache.get_xref_container_info
get_xref_container_info(c, revision) ==
    c.xref_container_info[(c.xref_sections - 1 - revision) + 1]

\* the pointer the file holds for the section of revision r: startxref for
\* the newest, the /Prev of the next newer section for the others
PointerTo(r) == made[Len(file) - r]

\* C18: after any successful _read_xrefs run, xref_locations and
\* xref_container_info hold exactly one entry per parsed section, and for
\* every revision r get_startxref_for_revision(r) is the pointer that led to
\* the section of revision r and get_xref_container_info(r) describes that
\* section, also when a pointer was malformed and the section was found by
\* the nearby search.
C18_LocationsAligned ==
    Parsed =>
        /\ Len(xrefs.xref_locations) = xrefs.xref_sections
        /\ Len(xrefs.xref_container_info) = xrefs.xref_sections
        /\ \A r \in 0..(total_revisions(xrefs) - 1) :
            /\ get_startxref_for_revision(xrefs, r)
                 \in {PointerTo(r), SectionOfRevision(r).loc}
            /\ get_xref_container_info(xrefs, r)
                 = <<kind, SectionOfRevision(r).loc>>

\* on the files whose pointers are all well formed the two lists are aligned
AlignedWhenWellFormed == (made = WellFormed) => C18_LocationsAligned

(***************************************************************************)
(* C26: last_change                                                        *)
(***************************************************************************)
\* the sections of the file (1 is the newest) with an entry of any type
\* for idnum
Touching(idnum) ==
    {k \in 1..Len(file) :
        \E i \in 1..Len(file[k].entries) : file[k].entries[i].id = idnum}

\* the revision of the newest of these sections
NewestRevision(sections) ==
    Len(file) - (CHOOSE k \in sections : \A o \in sections : k <= o)

\* HistoricalResolver.get_object: the condition under which the resolver of
\* this revision hands the reference to the reader's own get_object
delegates(c, idnum, revision) ==
    LET last_change == get_last_change(c, idnum)
    IN  ~last_change.raised /\ last_change.v <= revision

\* C26: after any successful parse, for every object id that occurs in some
\* xref section, get_last_change(id) is the number of the newest revision
\* whose section has an entry (in use, compressed or free) for that id, so
\* that the resolver of revision r delegates to the reader's current view
\* exactly when no revision newer than r touched the id.
C26_LastChange ==
    Parsed =>
      \A k \in 1..Len(file) : \A i \in 1..Len(file[k].entries) :
        LET idnum == file[k].entries[i].id
        IN  /\ ~get_last_change(xrefs, idnum).raised
            /\ get_last_change(xrefs, idnum).v
                 = NewestRevision(Touching(idnum))
            /\ \A r \in 0..(Len(file) - 1) :
                  delegates(xrefs, idnum, r)
                    <=> NewestRevision(Touching(idnum)) <= r

\* the same for the ids other than 0, the head of the free list
LastChangeOfNonZeroIds ==
    Parsed =>
      \A k \in 1..Len(file) : \A i \in 1..Len(file[k].entries) :
        LET idnum == file[k].entries[i].id
        IN  idnum # 0
              => /\ ~get_last_change(xrefs, idnum).raised
                 /\ get_last_change(xrefs, idnum).v
                      = NewestRevision(Touching(idnum))

\* where the newest section with an entry for the id holds an in-use or
\* compressed entry for it, of a generation no older section frees
LastChangeWithoutLaterGenerations ==
    Parsed =>
      \A k \in 1..Len(file) : \A i \in 1..Len(file[k].entries) :
        LET idnum == file[k].entries[i].id
        IN  (/\ idnum # 0
             /\ \A o \in Touching(idnum) : \A j \in 1..Len(file[o].entries) :
                   file[o].entries[j].id = idnum
                     => /\ file[o].entries[j].type \in {"n", "c"}
                        /\ file[o].entries[j].gen = 0)
              => get_last_change(xrefs, idnum).v
                   = NewestRevision(Touching(idnum))

(***************************************************************************)
(* C29: freed objects in historical views                                  *)
(***************************************************************************)
\* the marker that HistoricalResolver.get_object of this revision hands to
\* _read_object: the reader's current one if the id did not change after
\* the revision, the historical one otherwise
resolver_marker(c, ref, revision) ==
    IF get_last_change(c, ref.idnum).raised THEN PdfReadError
    ELSE IF delegates(c, ref.idnum, revision) THEN xref_getitem(c, ref)
    ELSE get_historical_ref(c, ref, revision)

\* section `older` of the file has an in-use entry for ref and the newer
\* section `newer` frees that generation of the id
FreedLater(ref, older, newer) ==
    /\ newer < older
    /\ \E i \in 1..Len(file[older].entries) :
          /\ file[older].entries[i].type = "n"
          /\ EntryRef(file[older].entries[i]) = ref
    /\ \E j \in 1..Len(file[newer].entries) :
          /\ file[newer].entries[j].type = "f"
          /\ file[newer].entries[j].id = ref.idnum
          /\ FreedGeneration(file[newer].entries[j].gen) = ref.generation

Freed(marker) == marker.kind \in {"null", "PdfReadError"}

\* C29: if a generation of an id is in use in one revision and freed in a
\* later revision f, then for every revision r >= f the historical lookup
\* of the reference, and the resolver of revision r, do not yield the
\* in-use marker of before the free: they report the reference as freed or
\* unavailable, as the lookup in the latest revision does.
C29_FreedInHistory ==
    Parsed =>
      \A older \in 1..Len(file), newer \in 1..Len(file) :
        \A i \in 1..Len(file[older].entries) :
          LET ref == EntryRef(file[older].entries[i])
          IN  (ref.idnum # 0 /\ FreedLater(ref, older, newer))
                => \A r \in (Len(file) - newer)..(Len(file) - 1) :
                      /\ Freed(get_historical_ref(xrefs, ref, r))
                      /\ Freed(resolver_marker(xrefs, ref, r))

\* the lookup in the latest revision of a reference that was freed
LatestLookupOfFreed ==
    Parsed =>
      \A older \in 1..Len(file), newer \in 1..Len(file) :
        \A i \in 1..Len(file[older].entries) :
          LET ref == EntryRef(file[older].entries[i])
          IN  (ref.idnum # 0 /\ FreedLater(ref, older, newer))
                => Freed(xref_getitem(xrefs, ref))

(***************************************************************************)
(* _read_xrefs on a file whose /Prev chain leads back to a section that    *)
(* was read before                                                         *)
(***************************************************************************)
\* how many readings of a section read before are recorded in full
MaxRevisits == 2

\* the section of the file at this location
SectionAt(loc) == CHOOSE j \in 1..Len(file) : file[j].loc = loc

\* what the loop and the cache's checks read when an iteration starts: the
\* pointer, and the two dicts that put_ref and free_ref raise on
LoopState == <<startxref, xrefs.generations, xrefs.previous_expected_free>>

NoRevisit == [back |-> 0, revisits |-> 0, seen |-> {}, repeated |-> FALSE]

InitChain ==
    /\ kind \in {"table", "stream"}
    /\ pc = "locate"
    /\ xrefs = XRefCacheInit
    /\ made = WellFormed
    /\ startxref = WellFormed[1]
    /\ file = <<>>
    /\ cur = <<>>
    /\ sh = Unused /\ cf = Unused /\ pkh = Unused
    /\ last = NoRevisit

\* the end of a section whose trailer's /Prev is the location of a section
\* read before, or of this section itself
PrevBack ==
    /\ pc = "entries"
    /\ last.back = 0
    /\ LET c1 == next_section(xrefs)
           c2 == IF kind = "table"
                 THEN [c1 EXCEPT !.xref_container_info =
                                   Append(@, <<"table", startxref>>)]
                 ELSE c1
           sec == [loc |-> startxref, kind |-> kind, entries |-> cur]
       IN /\ xrefs' = c2
          /\ file' = Append(file, sec)
          /\ cur' = <<>>
          /\ \E j \in 1..(Len(file) + 1) :
                /\ startxref' = file'[j].loc
                /\ last' = [last EXCEPT !.back = file'[j].loc]
          /\ pc' = "again"
    /\ UNCHANGED <<kind, sh, cf, pkh, made>>

\* The loop has no end on some files, and the cache grows with every
\* section read.  After MaxRevisits readings of sections read before, the
\* cache c is followed only in what the loop and the checks of put_ref and
\* free_ref read (the generations seen, the free entries awaited, the
\* current section's sets); what it logs besides stays as it was in c0
Followed(c, c0) ==
    IF last.revisits <= MaxRevisits THEN c
    ELSE [c0 EXCEPT !.generations = c.generations,
                    !.previous_expected_free = c.previous_expected_free,
                    !.current_section_ids = c.current_section_ids,
                    !.current_section_freed = c.current_section_freed]

\* the start of an iteration of the while loop at a section read before
LocateAgain ==
    /\ pc = "again"
    /\ xrefs' = IF last.revisits >= MaxRevisits THEN xrefs
                ELSE [xrefs EXCEPT
                        !.xref_locations = Append(@, startxref),
                        !.xref_container_info =
                            IF kind = "stream"
                            THEN Append(@, <<"stream", startxref>>)
                            ELSE @]
    /\ last' = [last EXCEPT !.revisits = IF @ > MaxRevisits THEN @ ELSE @ + 1,
                            !.seen = @ \cup {LoopState},
                            !.repeated = @ \/ LoopState \in last.seen]
    /\ pc' = "replay"
    /\ UNCHANGED <<startxref, kind, file, cur, sh, cf, pkh, made>>

\* the call on the cache that an entry of a section leads to
apply_entry(c, e) ==
    IF e.type = "n" THEN put_ref(c, e.id, e.gen, e.marker.a)
    ELSE IF e.type = "c" THEN put_obj_stream_ref(c, e.id, e.marker.a, e.marker.b)
    ELSE free_ref(c, e.id, e.gen)

\* the next entry of a section that is read again
ReplayEntry ==
    /\ pc = "replay"
    /\ Len(cur) < Len(file[SectionAt(startxref)].entries)
    /\ \E e \in {file[SectionAt(startxref)].entries[Len(cur) + 1]} :
        \E res \in {apply_entry(xrefs, e)} :
            IF res.raised
            THEN /\ pc' = "error"
                 /\ UNCHANGED <<xrefs, cur>>
            ELSE /\ xrefs' = Followed(res.x, xrefs)
                 /\ cur' = Append(cur, e)
                 /\ pc' = "replay"
    /\ UNCHANGED <<startxref, kind, file, sh, cf, pkh, made, last>>

\* the end of a section that is read again: its /Prev is what it was
ReplayEnd ==
    /\ pc = "replay"
    /\ Len(cur) = Len(file[SectionAt(startxref)].entries)
    /\ LET c1 == next_section(xrefs)
           c2 == IF kind = "table"
                 THEN [c1 EXCEPT !.xref_container_info =
                                   Append(@, <<"table", startxref>>)]
                 ELSE c1
       IN  xrefs' = Followed(c2, xrefs)
    /\ cur' = <<>>
    /\ startxref' = IF SectionAt(startxref) < Len(file)
                    THEN file[SectionAt(startxref) + 1].loc
                    ELSE last.back
    /\ pc' = "again"
    /\ UNCHANGED <<kind, file, sh, cf, pkh, made, last>>

NextChain ==
    \/ Locate
    \/ ReadInUse
    \/ ReadCompressed
    \/ ReadFree
    \/ EndSection
    \/ PrevBack
    \/ LocateAgain
    \/ ReplayEntry
    \/ ReplayEnd

\* the loop runs on by itself
SpecChain == InitChain /\ [][NextChain]_vars /\ WF_vars(NextChain)

Terminated == pc \in {"done", "error"}

\* C25: reading the xref chain terminates on every input: _read_xrefs
\* reaches a section without /Prev or raises PdfReadError after finitely
\* many sections, also when a /Prev pointer leads back to a section that
\* was read before.
C25_ReadXrefsTerminates == <>Terminated

\* as long as no /Prev leads back, the loop ends
TerminatesWithoutRevisit == <>(Terminated \/ pc = "again")

\* no iteration at a section read before starts with the pointer and the
\* checked dicts of an earlier one (from such a start the loop would take
\* the same steps again, without end)
LoopStateNeverRepeats == ~last.repeated

\* a file of one section with entries, all in use, whose /Prev is the
\* section's own location, starts an iteration as it started one before
LoopStateRepeats_Example ==
    /\ last.repeated
    /\ Len(file) = 1 /\ file[1].entries # <<>>
    /\ \A i \in 1..Len(file[1].entries) : file[1].entries[i].type = "n"

(***************************************************************************)
(* The fields of an xref stream entry: get_entry and convert_to_int        *)
(***************************************************************************)
\* the widest field of /W
MaxWidth == 9

\* Integers of any size are written as a sign and the bytes of the
\* magnitude, high byte first and without leading zeros
RECURSIVE StripZeros(_)
StripZeros(b) ==
    IF b = <<>> THEN <<>>
    ELSE IF b[1] = 0 THEN StripZeros(Tail(b))
    ELSE b

RECURSIVE ToBytes(_)
ToBytes(n) ==
    IF n = 0 THEN <<>> ELSE Append(ToBytes(n \div 256), n % 256)

IntValue(n) == [neg |-> FALSE, mag |-> ToBytes(n)]

\* the unsigned big-endian integer that the bytes spell
BigEndian(d) == [neg |-> FALSE, mag |-> StripZeros(d)]

\* b + 1 on bytes, from position i down, modulo 256^Len(b)
RECURSIVE AddOne(_, _)
AddOne(b, i) ==
    IF i = 0 THEN b
    ELSE IF b[i] = 255 THEN AddOne([b EXCEPT ![i] = 0], i - 1)
    ELSE [b EXCEPT ![i] = @ + 1]

\* struct.unpack(">q", b)[0]: eight bytes as a signed number in two's
\* complement
unpack_q(b) ==
    IF b[1] >= 128
    THEN [neg |-> TRUE,
          mag |-> StripZeros(AddOne([i \in 1..8 |-> 255 - b[i]], 8))]
    ELSE [neg |-> FALSE, mag |-> StripZeros(b)]

\* digit ** e
RECURSIVE Power(_, _)
Power(digit, e) == IF e = 0 THEN 1 ELSE digit * Power(digit, e - 1)

\* sum(digit ** (size - ix - 1) for ix, digit in enumerate(d)), from ix on
RECURSIVE PowerSum(_, _, _)
PowerSum(d, size, ix) ==
    IF ix >= Len(d) THEN 0
    ELSE Power(d[ix + 1], size - ix - 1) + PowerSum(d, size, ix + 1)

\* convert_to_int
convert_to_int(d, size) ==
    IF size <= 8
    THEN unpack_q([i \in 1..(8 - size) |-> 0] \o d)
    ELSE IntValue(PowerSum(d, size, 0))

\* get_entry of read_xref_stream, given the bytes it reads for the field
get_entry(entry_sizes, ix, d) ==
    IF entry_sizes[ix + 1] > 0 THEN convert_to_int(d, entry_sizes[ix + 1])
    ELSE IF ix = 0 THEN IntValue(1)
    ELSE IntValue(0)

\* the bytes of a field of this width: the first, the last and those in
\* between vary (small bytes alone where the field is wider than eight
\* bytes, so that the powers stay within the model's integers)
FieldBytes(w) == IF w <= 8 THEN {0, 1, 128, 255} ELSE {0, 1, 2}
Fields(w) ==
    {[i \in 1..w |-> IF i = 1 THEN hi ELSE IF i = w THEN lo ELSE mid] :
        hi \in FieldBytes(w), mid \in FieldBytes(w), lo \in FieldBytes(w)}

\* an xref stream with its /W, before one of the fields of an entry is read
InitFields ==
    /\ pc = "field"
    /\ xrefs = Unused /\ startxref = Unused /\ kind = Unused
    /\ file = Unused /\ sh = Unused /\ cf = Unused /\ pkh = Unused
    /\ last = Unused
    /\ \E ix \in 0..2, w \in 0..MaxWidth :
        /\ made = [ix |-> ix,
                   W |-> [i \in 1..3 |-> IF i = ix + 1 THEN w ELSE 1]]
        /\ cur \in Fields(w)

\* get_entry(ix)
GetEntry ==
    /\ pc = "field"
    /\ last' = get_entry(made.W, made.ix, cur)
    /\ pc' = "read"
    /\ UNCHANGED <<xrefs, startxref, kind, file, cur, sh, cf, pkh, made>>

NextFields == GetEntry

SpecFields == InitFields /\ [][NextFields]_vars

\* C27: for every field width w >= 1 in /W (also w = 8 with the top bit
\* set, and w > 8) and every field of w bytes, convert_to_int returns the
\* non-negative big-endian value of the bytes; a width of 0 yields 1 for
\* field 0 and 0 for fields 1 and 2.
C27_FieldDecoding ==
    pc = "read" =>
        last = IF made.W[made.ix + 1] >= 1 THEN BigEndian(cur)
               ELSE IF made.ix = 0 THEN IntValue(1)
               ELSE IntValue(0)

\* the same for fields of up to seven bytes, for fields of eight bytes
\* whose top bit is clear, and for the defaults
FieldDecodingBelowSignBit ==
    (pc = "read"
        /\ (made.W[made.ix + 1] < 8
              \/ (made.W[made.ix + 1] = 8 /\ cur[1] < 128)))
      => last = IF made.W[made.ix + 1] >= 1 THEN BigEndian(cur)
                ELSE IF made.ix = 0 THEN IntValue(1)
                ELSE IntValue(0)

\* a field of eight bytes with the top bit set is read as a negative number
EightBytesSigned ==
    (pc = "read" /\ made.W[made.ix + 1] = 8 /\ cur[1] >= 128) => last.neg

\* a field of seven bytes that are all 255 was read
FieldDecoding_Witness ==
    /\ pc = "read" /\ made.W[made.ix + 1] = 7
    /\ \A i \in 1..7 : cur[i] = 255
    /\ last = BigEndian(cur)

\* a field of nine bytes that spell 2 was read as 1
WideField_Example ==
    /\ pc = "read" /\ made.W[made.ix + 1] = 9
    /\ cur = <<0, 0, 0, 0, 0, 0, 0, 0, 2>>
    /\ last = IntValue(1)

(***************************************************************************)
(* Byte strings of the security handlers.  A byte string is a term: a      *)
(* tuple whose first element names how the bytes were made.  Hashes and    *)
(* ciphers are free symbols (two digests are equal only if their inputs    *)
(* are), decryption undoes encryption under the same key only, and         *)
(* slicing and padding act on the terms as they act on the bytes.          *)
(***************************************************************************)
MaxPw == 2

\* passwords handed to the builders, and those tried afterwards (one more)
PwNames == 1..MaxPw
TriedNames == 1..(MaxPw + 1)

\* the shapes a password named n comes in: its bytes alone ("plain", under
\* 32 bytes), followed by the head of the padding string up to 32 bytes
\* ("padded"), and the padded form followed by more than 95 further bytes
\* ("long")
PwForms == {"plain", "padded", "long"}
Pw(n, form) == <<"pw", n, form>>
BuilderPasswords == {Pw(n, "plain") : n \in PwNames} \cup {Pw(1, "long")}
TriedPasswords == {Pw(n, f) : n \in TriedNames, f \in PwForms}

\* F applied to the value of e, worked out once (Python evaluates an
\* argument before the call)
Call(F(_), e) == CHOOSE r \in {F(x) : x \in {e}} : TRUE

None == <<"None">>
Num(n) == <<"int", n>>
DocId(n) == <<"id", n>>
Random(name) == <<"random", name>>
encryption_padding == <<"padding">>
FFFF == <<"ffffffff">>
Zeros16 == <<"zeros16">>

\* password[:32] and password[:127] of bytes
legacy_normalise_pw(password) ==
    IF password[3] = "long" THEN Pw(password[2], "padded") ELSE password

r6_normalise_pw(password) ==
    IF password[3] = "long" THEN Pw(password[2], "cut127") ELSE password

\* (password + _encryption_padding)[:32]
Pad32(password) ==
    IF password[1] = "pw" /\ password[3] \in PwForms
    THEN <<"pad32", password[2]>>
    ELSE IF password[1] = "pad32" THEN password
    ELSE <<"pad32of", password>>

Md5(parts) == <<"md5", parts>>

\* digest[:n] of a 16-byte digest
Trunc(digest, n) ==
    IF n >= 16 THEN digest ELSE <<"trunc", digest, Num(n)>>

\* for i in range(50): md5_hash = md5(md5_hash[:n]).digest()
Md5Rounds(digest, n) == <<"md5x50", Trunc(digest, n)>>

\* a + b, and the first 16 bytes of a string whose head a has 16 bytes
Cat(a, b) == <<"cat", a, b>>
First16(x) == IF x[1] = "cat" THEN x[2] ELSE <<"first16", x>>

\* bytes(b ^ i for b in key), and the key and the i it was made of
XorKey(key, i) == IF i = 0 THEN key ELSE <<"xor", key, Num(i)>>
XorBase(key) == IF key[1] = "xor" THEN key[2] ELSE key
XorIx(key) == IF key[1] = "xor" THEN key[3][2] ELSE 0

\* symmetric.rc4_encrypt under the keys key ^ rounds[1], key ^ rounds[2], ...
\* in turn (rounds ascends or descends).  RC4 under one key undoes itself,
\* so a round that meets its like on top of the data removes it; what is
\* left is the data under the rounds still on it.
Rc4Rounds(key, rounds, data) ==
    LET Under(kd) ==
            LET under == kd[2][1] = "rc4" /\ kd[2][2] = kd[1]
                on == IF under THEN kd[2][3] ELSE <<>>
                inner == IF under THEN kd[2][4] ELSE kd[2]
                n == IF Len(on) < Len(rounds) THEN Len(on) ELSE Len(rounds)
                c == CHOOSE c \in 0..n :
                        /\ \A j \in 1..c : rounds[j] = on[Len(on) + 1 - j]
                        /\ c = n \/ rounds[c + 1] # on[Len(on) - c]
                left == SubSeq(on, 1, Len(on) - c)
                          \o SubSeq(rounds, c + 1, Len(rounds))
            IN  IF left = <<>> THEN inner ELSE <<"rc4", kd[1], left, inner>>
    IN  Call(Under, <<key, data>>)

rc4_encrypt(key, data) == Rc4Rounds(XorBase(key), <<XorIx(key)>>, data)

\* symmetric.aes_cbc_no_padding_encrypt / _decrypt with a zero IV
aes_cbc_no_padding_encrypt(key, data) == <<"aes", key, data>>

aes_cbc_no_padding_decrypt(key, data) ==
    IF data[1] = "aes" /\ data[2] = key THEN data[3]
    ELSE <<"aesdec", key, data>>

\* symmetric.aes_cbc_pkcs7_encrypt of one 16-byte block with a zero IV: the
\* block's own encryption, then the encrypted padding block
aes_cbc_pkcs7_encrypt(key, block) ==
    Cat(aes_cbc_no_padding_encrypt(key, block), <<"aespad", key, block>>)

(***************************************************************************)
(* The standard security handler, revisions 2 to 4                         *)
(***************************************************************************)
ALL_PERMS == -4

\* algorithm 3.2
derive_legacy_file_key(password, rev, keylen, owner_entry, p_entry, id1_entry, metadata_encrypt) ==
    LET pw == Pad32(password)
        fed == <<pw, owner_entry, Num(p_entry), id1_entry>>
        m == IF rev >= 4 /\ ~metadata_encrypt THEN Append(fed, FFFF) ELSE fed
        md5_hash == Md5(m)
        hashed == IF rev >= 3 THEN Md5Rounds(md5_hash, keylen) ELSE md5_hash
    IN  Trunc(hashed, keylen)

\* steps 1 to 4 of algorithm 3.3
compute_o_value_legacy_prep(password, rev, keylen) ==
    LET md5_hash == Md5(<<Pad32(password)>>)
        hashed == IF rev >= 3 THEN Md5Rounds(md5_hash, 16) ELSE md5_hash
    IN  Trunc(hashed, keylen)

\* for i in range(1, 20): val = rc4_encrypt(key ^ i, val)
RoundsUp(key, val) == Rc4Rounds(key, [i \in 1..19 |-> i], val)

\* for i in range(19, -1, -1): val = rc4_encrypt(key ^ i, val)
RoundsDown(key, val) == Rc4Rounds(key, [i \in 1..20 |-> 20 - i], val)

\* algorithm 3.3
compute_o_value_legacy(owner_pwd, user_pwd, rev, keylen) ==
    LET key == compute_o_value_legacy_prep(owner_pwd, rev, keylen)
        val == rc4_encrypt(key, Pad32(user_pwd))
    IN  IF rev >= 3 THEN RoundsUp(key, val) ELSE val

\* algorithm 3.4 for revision 2: the pair (u, key)
compute_u_value_r2(password, owner_entry, p_entry, id1_entry) ==
    LET With(key) == [u |-> rc4_encrypt(key, encryption_padding),
                      key |-> key]
    IN  Call(With, derive_legacy_file_key(password, 2, 5, owner_entry,
                                          p_entry, id1_entry, TRUE))

\* algorithm 3.5 for revisions 3 and 4: the pair (u, key)
compute_u_value_r34(password, rev, keylen, owner_entry, p_entry, id1_entry) ==
    LET md5_hash == Md5(<<encryption_padding, id1_entry>>)
        With(key) ==
            [u |-> Cat(RoundsUp(key, rc4_encrypt(key, md5_hash)), Zeros16),
             key |-> key]
    IN  Call(With, derive_legacy_file_key(password, rev, keylen, owner_entry,
                                          p_entry, id1_entry, TRUE))

\* StandardSecurityHandler.__init__
StandardSecurityHandler(revision, legacy_keylen, perm_flags, odata, udata, oeseed, ueseed, encrypted_perms, encrypt_metadata) ==
    [revision |-> revision, keylen |-> legacy_keylen, perms |-> perm_flags,
     odata |-> odata, udata |-> udata, oeseed |-> oeseed, ueseed |-> ueseed,
     encrypted_perms |-> encrypted_perms,
     encrypt_metadata |-> encrypt_metadata,
     shared_key |-> None, auth_failed |-> FALSE]

\* StandardSecurityHandler.build_from_pw_legacy; desired_user_pass may be None
build_from_pw_legacy(rev, id1, desired_owner_pass, desired_user_pass, keylen_bytes, use_aes128) ==
    LET owner_pass == legacy_normalise_pw(desired_owner_pass)
        user_pass == IF desired_user_pass # None
                     THEN legacy_normalise_pw(desired_user_pass)
                     ELSE owner_pass
        keylen == IF rev = 2 THEN 5
                  ELSE IF use_aes128 /\ rev = 4 THEN 16
                  ELSE keylen_bytes
        o_entry == compute_o_value_legacy(owner_pass, user_pass, rev, keylen)
        perms == ALL_PERMS
        uk == IF rev = 2
              THEN compute_u_value_r2(user_pass, o_entry, perms, id1)
              ELSE compute_u_value_r34(user_pass, rev, keylen, o_entry,
                                       perms, id1)
        new == StandardSecurityHandler(rev, keylen, perms, o_entry, uk.u,
                                       None, None, None, TRUE)
    IN  [new EXCEPT !.shared_key = uk.key]

\* StandardSecurityHandler._auth_user_password_legacy: the pair (ok, key)
auth_user_password_legacy(self, id1, password) ==
    IF self.revision = 2
    THEN LET uk == compute_u_value_r2(password, self.odata, self.perms, id1)
         IN  [ok |-> uk.u = self.udata, key |-> uk.key]
    ELSE LET uk == compute_u_value_r34(password, self.revision, self.keylen,
                                       self.odata, self.perms, id1)
         IN  [ok |-> First16(uk.u) = First16(self.udata), key |-> uk.key]

\* mutant: the owner path runs its rounds upwards, as the builder does
OwnerPathUpwards(self, password) ==
    LET key == compute_o_value_legacy_prep(password, self.revision,
                                           self.keylen)
    IN  IF self.revision = 2 THEN rc4_encrypt(key, self.odata)
        ELSE Rc4Rounds(key, [i \in 1..20 |-> i - 1], self.odata)

\* the user password the owner path of _authenticate_legacy recovers from /O
OwnerPathUserpass(self, password) ==
    LET key == compute_o_value_legacy_prep(password, self.revision,
                                           self.keylen)
    IN  IF self.revision = 2 THEN rc4_encrypt(key, self.odata)
        ELSE RoundsDown(key, self.odata)

\* StandardSecurityHandler._authenticate_legacy: the pair (result, key)
authenticate_legacy(self, id1, password) ==
    LET user == auth_user_password_legacy(self, id1, password)
        owner == auth_user_password_legacy(self, id1,
                                           OwnerPathUserpass(self, password))
    IN  IF user.ok THEN [res |-> "USER", key |-> user.key]
        ELSE IF owner.ok THEN [res |-> "OWNER", key |-> owner.key]
        ELSE [res |-> "FAILED", key |-> None]

(***************************************************************************)
(* The standard security handler, revision 6                               *)
(***************************************************************************)
\* algorithm 2.B, as a function of what it is given (an absent or empty
\* u_entry is not hashed)
r6_hash_algo(pw_bytes, current_salt, u_entry) ==
    IF u_entry = None THEN <<"r6hash", <<pw_bytes, current_salt>>>>
    ELSE <<"r6hash", <<pw_bytes, current_salt, u_entry>>>>

\* hash + validation salt + key salt, and _R6KeyEntry.from_bytes
R6Entry(hash_value, validation_salt, key_salt) ==
    <<"r6entry", hash_value, validation_salt, key_salt>>

R6KeyEntry_from_bytes(entry) ==
    [hash_value |-> entry[2], validation_salt |-> entry[3],
     key_salt |-> entry[4]]

\* mutant: the owner's hash is checked without the /U entry
r6_password_authenticate_without_u(pw_bytes, entry, u_entry) ==
    r6_hash_algo(pw_bytes, entry.validation_salt, None) = entry.hash_value

r6_password_authenticate(pw_bytes, entry, u_entry) ==
    r6_hash_algo(pw_bytes, entry.validation_salt, u_entry) = entry.hash_value

r6_derive_file_key(pw_bytes, entry, e_entry, u_entry) ==
    aes_cbc_no_padding_decrypt(r6_hash_algo(pw_bytes, entry.key_salt, u_entry),
                               e_entry)

\* the 16 bytes of /Perms before encryption: the flags (four bytes, low
\* byte first), byte 8, and bytes 9..11
PermsBlock(flags, byte8, mark) ==
    <<"perms", <<"bytes", flags>>, <<"byte", byte8>>, <<"mark", mark>>>>

\* struct.unpack('<i', ...): four bytes, low byte first, as a signed number
UnpackSigned(b) ==
    b[1] + 256 * b[2] + 65536 * b[3]
      + 16777216 * (IF b[4] >= 128 THEN b[4] - 256 ELSE b[4])

\* StandardSecurityHandler.build_from_pw; desired_user_pass may be None
build_from_pw(desired_owner_pass, desired_user_pass) ==
    LET owner_pw_bytes == r6_normalise_pw(desired_owner_pass)
        user_pw_bytes == IF desired_user_pass # None
                         THEN r6_normalise_pw(desired_user_pass)
                         ELSE owner_pw_bytes
        encryption_key == Random("encryption_key")
        u_validation_salt == Random("u_validation_salt")
        u_key_salt == Random("u_key_salt")
        u_hash == r6_hash_algo(user_pw_bytes, u_validation_salt, None)
        u_entry == R6Entry(u_hash, u_validation_salt, u_key_salt)
        u_interm_key == r6_hash_algo(user_pw_bytes, u_key_salt, None)
        ue_seed == aes_cbc_no_padding_encrypt(u_interm_key, encryption_key)
        o_validation_salt == Random("o_validation_salt")
        o_key_salt == Random("o_key_salt")
        o_hash == r6_hash_algo(owner_pw_bytes, o_validation_salt, u_entry)
        o_entry == R6Entry(o_hash, o_validation_salt, o_key_salt)
        o_interm_key == r6_hash_algo(owner_pw_bytes, o_key_salt, u_entry)
        oe_seed == aes_cbc_no_padding_encrypt(o_interm_key, encryption_key)
        perms_bytes == <<252, 255, 255, 255>>
        extd_perms_bytes == PermsBlock(perms_bytes, "T", "adb")
        perms == UnpackSigned(perms_bytes)
        encrypted_perms ==
            First16(aes_cbc_pkcs7_encrypt(encryption_key, extd_perms_bytes))
        new == StandardSecurityHandler(6, 32, perms, o_entry, u_entry,
                                       oe_seed, ue_seed, encrypted_perms, TRUE)
    IN  [new EXCEPT !.shared_key = encryption_key]

\* mutant: the /Perms check is left out
PermsOkAlways(self, key) == TRUE

\* the check of the decrypted /Perms in _authenticate_r6; bytes that are not
\* a block some writer encrypted under this key fail it
PermsOk(self, key) ==
    LET decrypted_p_entry ==
            aes_cbc_no_padding_decrypt(key, self.encrypted_perms)
    IN  /\ decrypted_p_entry[1] = "perms"
        /\ decrypted_p_entry[4] = <<"mark", "adb">>
        /\ self.perms = UnpackSigned(decrypted_p_entry[2][2])
        /\ decrypted_p_entry[3][2] \in {"T", "F"}
        /\ (decrypted_p_entry[3][2] = "T") = self.encrypt_metadata

\* StandardSecurityHandler._authenticate_r6: the pair (result, key), or the
\* exception it raises
authenticate_r6(self, password) ==
    LET pw_bytes == r6_normalise_pw(password)
        o_entry_split == R6KeyEntry_from_bytes(self.odata)
        u_entry_split == R6KeyEntry_from_bytes(self.udata)
        owner == r6_password_authenticate(pw_bytes, o_entry_split, self.udata)
        user == r6_password_authenticate(pw_bytes, u_entry_split, None)
        key == IF owner
               THEN r6_derive_file_key(pw_bytes, o_entry_split, self.oeseed,
                                       self.udata)
               ELSE r6_derive_file_key(pw_bytes, u_entry_split, self.ueseed,
                                       None)
    IN  IF ~owner /\ ~user THEN [res |-> "FAILED", key |-> None]
        ELSE IF ~PermsOk(self, key) THEN [res |-> "PdfError", key |-> None]
        ELSE [res |-> IF owner THEN "OWNER" ELSE "USER", key |-> key]

(***************************************************************************)
(* The rounds of algorithm 2.B                                             *)
(***************************************************************************)
\* mutant: the loop goes on only while both conditions hold
r6_loop_while_both(round_no, last_byte_val) ==
    round_no < 64 /\ last_byte_val > round_no - 32

\* the condition of the while loop of _r6_hash_algo
r6_loop_condition(round_no, last_byte_val) ==
    round_no < 64 \/ last_byte_val > round_no - 32

\* _r6_hash_algo before its loop, for any password, salt and /U entry
InitR6 ==
    /\ pc = "loop"
    /\ made = [round_no |-> 0, last_byte_val |-> 0]
    /\ xrefs = Unused /\ startxref = Unused /\ kind = Unused
    /\ file = Unused /\ cur = Unused
    /\ sh = Unused /\ cf = Unused /\ pkh = Unused /\ last = Unused

\* the last bytes of e that are followed: every fourth byte value, and 255
LastBytes == {b \in 0..255 : b % 4 = 0} \cup {255}

\* one round: e is the AES-CBC encryption of k1, and its last byte may be
\* any byte
R6Round ==
    /\ pc = "loop"
    /\ r6_loop_condition(made.round_no, made.last_byte_val)
    /\ \E e_last \in LastBytes :
          made' = [round_no |-> made.round_no + 1, last_byte_val |-> e_last]
    /\ UNCHANGED <<pc, xrefs, startxref, kind, file, cur, sh, cf, pkh, last>>

\* return k[:32]
R6Return ==
    /\ pc = "loop"
    /\ ~r6_loop_condition(made.round_no, made.last_byte_val)
    /\ pc' = "returned"
    /\ UNCHANGED <<made, xrefs, startxref, kind, file, cur, sh, cf, pkh, last>>

NextR6 ==
    \/ R6Round
    \/ R6Return

\* the loop runs on by itself
SpecR6 == InitR6 /\ [][NextR6]_vars /\ WF_vars(NextR6)

\* C23: the loop of _r6_hash_algo terminates: it runs at least 64 rounds,
\* stops at the first round count n >= 64 for which the last byte of E is
\* <= n - 32, and never runs more than 287 rounds.
C23_R6Terminates ==
    /\ <>(pc = "returned")
    /\ [](made.round_no <= 287)
    /\ [](pc = "returned"
            => /\ made.round_no >= 64
               /\ made.last_byte_val <= made.round_no - 32)
    /\ [][ (made.round_no >= 64
              /\ made.last_byte_val <= made.round_no - 32)
             => made'.round_no = made.round_no ]_vars

\* the loop returned after 287 rounds
C23_Witness ==
    pc = "returned" /\ made.round_no = 287 /\ made.last_byte_val = 255

(***************************************************************************)
(* A standard security handler in use: built from passwords, or read back  *)
(* from the encryption dictionary of a file, then asked to authenticate    *)
(* (with the first /ID of the file it is used on, which may be another     *)
(* than the builder was given, or missing) and, through its crypt filter,  *)
(* for the shared key                                                      *)
(***************************************************************************)
\* StandardSecurityHandler.as_pdf_object
as_pdf_object(self) ==
    [O |-> self.odata, U |-> self.udata, P |-> self.perms,
     R |-> self.revision, Length |-> self.keylen * 8,
     EncryptMetadata |-> self.encrypt_metadata,
     OE |-> self.oeseed, UE |-> self.ueseed, Perms |-> self.encrypted_perms]

\* StandardSecurityHandler.instantiate_from_pdf_object
instantiate_from_pdf_object(encrypt_dict) ==
    StandardSecurityHandler(encrypt_dict.R, encrypt_dict.Length \div 8,
                            encrypt_dict.P, encrypt_dict.O, encrypt_dict.U,
                            encrypt_dict.OE, encrypt_dict.UE,
                            encrypt_dict.Perms, encrypt_dict.EncryptMetadata)

\* what a revision 6 dictionary says about permissions: /P, the flags, byte
\* 8 and bytes 9..11 of the /Perms block, the key that block is encrypted
\* under, and /EncryptMetadata.  Untouched is what build_from_pw writes.
Untouched ==
    [P |-> -4, flags |-> <<252, 255, 255, 255>>, byte8 |-> "T", mark |-> "adb",
     key |-> "encryption_key", meta |-> TRUE]

PermsVariants ==
    {Untouched,
     [Untouched EXCEPT !.mark = "xyz"],
     [Untouched EXCEPT !.flags = <<192, 255, 255, 255>>],
     [Untouched EXCEPT !.flags = <<192, 255, 255, 255>>, !.P = -64],
     [Untouched EXCEPT !.flags = <<252, 255, 255, 127>>],
     [Untouched EXCEPT !.P = -64],
     [Untouched EXCEPT !.byte8 = "F"],
     [Untouched EXCEPT !.byte8 = "X"],
     [Untouched EXCEPT !.meta = FALSE],
     [Untouched EXCEPT !.meta = FALSE, !.byte8 = "F"],
     [Untouched EXCEPT !.key = "another_key"]}

WithPerms(encrypt_dict, t) ==
    [encrypt_dict EXCEPT
       !.P = t.P,
       !.EncryptMetadata = t.meta,
       !.Perms = aes_cbc_no_padding_encrypt(
                     Random(t.key), PermsBlock(t.flags, t.byte8, t.mark))]

\* the filter configurations _std_rc4_config and _std_aes_config: one filter
\* for strings and streams, no key held yet
StdCryptFilters == [n \in {"/StdCF"} |-> [shared_key |-> None]]

InitStd ==
    /\ pc = Unused /\ xrefs = Unused /\ startxref = Unused
    /\ kind = Unused /\ file = Unused /\ cur = Unused
    /\ pkh = Unused
    /\ cf = StdCryptFilters
    /\ last = [op |-> "init", filter |-> "", credential |-> None,
               id1 |-> None, result |-> "", key |-> None,
               before |-> [shared_key |-> None, auth_failed |-> FALSE,
                           cached |-> FALSE]]
    /\ \E rev \in {2, 3, 4, 6},
          owner \in BuilderPasswords, user \in BuilderPasswords \cup {None},
          keylen_bytes \in {5, 16}, use_aes128 \in BOOLEAN,
          origin \in {"built", "loaded"}, t \in PermsVariants,
          file_id \in {DocId(1), DocId(2), None} :
        \E built \in {IF rev = 6 THEN build_from_pw(owner, user)
                       ELSE build_from_pw_legacy(rev, DocId(1), owner, user,
                                                 keylen_bytes, use_aes128)} :
        LET written == IF rev = 6 THEN WithPerms(as_pdf_object(built), t)
                       ELSE as_pdf_object(built)
        IN  /\ origin = "built" => t = Untouched
            /\ rev # 6 => t = Untouched
            /\ rev = 6 => file_id = DocId(1)
            /\ sh = IF origin = "built" THEN built
                    ELSE instantiate_from_pdf_object(written)
            /\ made = [origin |-> origin, owner |-> owner,
                       user |-> IF user = None THEN owner ELSE user,
                       id1 |-> DocId(1), file_id |-> file_id,
                       key |-> built.shared_key,
                       perms |-> t, ok |-> FALSE, failed |-> FALSE]

\* mutant: a failed authentication also forgets the key
authenticate_forgetting(self, credential, id1) ==
    LET Record(rk) ==
            IF rk.res \in {"PdfError", "ValueError"}
            THEN [self |-> self, res |-> rk.res, key |-> None]
            ELSE IF rk.key # None
            THEN [self |-> [self EXCEPT !.shared_key = rk.key],
                  res |-> rk.res, key |-> rk.key]
            ELSE [self |-> [self EXCEPT !.auth_failed = TRUE,
                                        !.shared_key = None],
                  res |-> rk.res, key |-> None]
    IN  Call(Record,
             IF self.revision = 6 THEN authenticate_r6(self, credential)
             ELSE IF id1 = None THEN [res |-> "ValueError", key |-> None]
             ELSE authenticate_legacy(self, id1,
                                      legacy_normalise_pw(credential)))

\* StandardSecurityHandler.authenticate: the handler afterwards, and what
\* the call returned or raised
authenticate(self, credential, id1) ==
    LET Record(rk) ==
            IF rk.res \in {"PdfError", "ValueError"}
            THEN [self |-> self, res |-> rk.res, key |-> None]
            ELSE IF rk.key # None
            THEN [self |-> [self EXCEPT !.shared_key = rk.key],
                  res |-> rk.res, key |-> rk.key]
            ELSE [self |-> [self EXCEPT !.auth_failed = TRUE],
                  res |-> rk.res, key |-> None]
    IN  Call(Record,
             IF self.revision = 6 THEN authenticate_r6(self, credential)
             ELSE IF id1 = None THEN [res |-> "ValueError", key |-> None]
             ELSE authenticate_legacy(self, id1,
                                      legacy_normalise_pw(credential)))

\* StandardSecurityHandler.get_file_encryption_key; None stands for the
\* PdfReadError it raises
get_file_encryption_key(self) == self.shared_key

\* mutant: shared_key does not look at the auth-failed flag
shared_key_unguarded(filter, auth_failed, derived, error) ==
    IF filter.shared_key # None
    THEN [self |-> filter, res |-> "key", key |-> filter.shared_key]
    ELSE IF derived = None
    THEN [self |-> filter, res |-> error, key |-> None]
    ELSE [self |-> [filter EXCEPT !.shared_key = derived],
          res |-> "key", key |-> derived]

\* CryptFilter.shared_key, given the filter's _auth_failed and what its
\* derive_shared_encryption_key would return (None: it raises error)
shared_key(filter, auth_failed, derived, error) ==
    IF filter.shared_key # None
    THEN [self |-> filter, res |-> "key", key |-> filter.shared_key]
    ELSE IF auth_failed
    THEN [self |-> filter, res |-> "PdfReadError", key |-> None]
    ELSE IF derived = None
    THEN [self |-> filter, res |-> error, key |-> None]
    ELSE [self |-> [filter EXCEPT !.shared_key = derived],
          res |-> "key", key |-> derived]

Before(name) ==
    [shared_key |-> sh.shared_key, auth_failed |-> sh.auth_failed,
     cached |-> name # "" /\ cf[name].shared_key # None]

StdAuthenticate ==
    /\ \E credential \in TriedPasswords :
        \E id1 \in {made.file_id} :
        \E r \in {authenticate(sh, credential, id1)} :
            /\ sh' = r.self
            /\ last' = [op |-> "authenticate", filter |-> "",
                        credential |-> credential, id1 |-> id1,
                        result |-> r.res, key |-> r.key,
                        before |-> Before("")]
            /\ made' = [made EXCEPT
                          !.ok = @ \/ r.res \in {"USER", "OWNER"},
                          !.failed = @ \/ r.res = "FAILED"]
    /\ UNCHANGED <<cf, pkh>>
    /\ UNCHANGED xvars

\* StandardCryptFilter: _auth_failed and derive_shared_encryption_key are
\* the handler's
StdSharedKey ==
    /\ \E name \in DOMAIN cf :
        \E r \in {shared_key(cf[name], sh.auth_failed,
                            get_file_encryption_key(sh), "PdfReadError")} :
            /\ cf' = [cf EXCEPT ![name] = r.self]
            /\ last' = [op |-> "shared_key", filter |-> name,
                        credential |-> None, id1 |-> None,
                        result |-> r.res, key |-> r.key,
                        before |-> Before(name)]
    /\ UNCHANGED <<sh, pkh, made>>
    /\ UNCHANGED xvars

NextStd ==
    \/ StdAuthenticate
    \/ StdSharedKey

SpecStd == InitStd /\ [][NextStd]_vars

(***************************************************************************)
(* Claims about the standard security handler                              *)
(***************************************************************************)
Authenticated == last.op = "authenticate" /\ last.result \in {"USER", "OWNER"}
AccessedKey == last.op = "shared_key"

\* the key is recorded on success, and the flag is set by a failure for good
C5_Recorded ==
    /\ Authenticated => last.key # None /\ sh.shared_key = last.key
    /\ made.failed => sh.auth_failed

\* C5: after authenticate, USER or OWNER leaves the file key on the
\* handler; FAILED sets the auth-failed flag for good, and every later
\* access to a crypt filter's shared_key raises instead of returning a key.
C5_FailureLatches ==
    /\ C5_Recorded
    /\ (made.failed /\ AccessedKey) => last.result = "PdfReadError"

\* C5, amended: after a FAILED authenticate, every later access to the
\* shared_key of a crypt filter that holds no key of its own yet raises; a
\* filter that obtained the key before goes on returning it.
C5_FailureLatchesUncached ==
    /\ C5_Recorded
    /\ (made.failed /\ AccessedKey /\ ~last.before.cached)
          => last.result = "PdfReadError"
    /\ (AccessedKey /\ last.before.cached)
          => last.result = "key" /\ last.key = cf[last.filter].shared_key

\* a filter without a key is refused although the handler holds the key
C5_Witness ==
    /\ made.failed /\ made.ok /\ AccessedKey /\ ~last.before.cached
    /\ sh.shared_key # None /\ last.result = "PdfReadError"

\* the password of the latest authenticate call is, byte for byte after
\* truncation to 127 bytes, the owner's or the user's
R6Matches ==
    LET Cut(p) == IF p[3] = "long" THEN <<p[2], "cut">> ELSE <<p[2], p[3]>>
    IN  Cut(last.credential) \in {Cut(made.owner), Cut(made.user)}

\* what the dictionary says about permissions does not fit together
PermsInconsistent ==
    LET t == made.perms
        AsSigned(b) == IF b = <<252, 255, 255, 255>> THEN -4
                       ELSE IF b = <<192, 255, 255, 255>> THEN -64
                       ELSE 2147483644
    IN  \/ t.key # "encryption_key"
        \/ t.mark # "adb"
        \/ AsSigned(t.flags) # t.P
        \/ t.byte8 \notin {"T", "F"}
        \/ (t.byte8 = "T") # t.meta

\* C7: a revision 6 authenticate whose password matches /O or /U while the
\* decrypted /Perms block is inconsistent raises an error (it does not
\* return FAILED), and leaves the handler's key and auth-failed flag as they
\* were before the call.
C7_PermsMismatchRaises ==
    (last.op = "authenticate" /\ sh.revision = 6 /\ R6Matches
        /\ PermsInconsistent)
      => /\ last.result = "PdfError"
         /\ sh.shared_key = last.before.shared_key
         /\ sh.auth_failed = last.before.auth_failed

\* the owner's password, a tampered block, after an earlier failure
C7_Witness ==
    /\ last.op = "authenticate" /\ sh.revision = 6 /\ R6Matches
    /\ PermsInconsistent /\ last.result = "PdfError"
    /\ sh.auth_failed /\ sh.shared_key = None

\* what authenticate should say of a password, all shapes of a name being
\* the same 32 bytes once truncated and padded
LegacyExpected(p) ==
    IF p[2] = made.user[2] THEN "USER"
    ELSE IF p[2] = made.owner[2] THEN "OWNER"
    ELSE "FAILED"

\* the /U recomputed from the user password the call ended up with equals
\* the stored one, in 32 bytes for revision 2 and in 16 after
LegacyURecomputed ==
    LET given == legacy_normalise_pw(last.credential)
        userpass == IF last.result = "USER" THEN given
                    ELSE OwnerPathUserpass(sh, given)
    IN  IF sh.revision = 2
        THEN compute_u_value_r2(userpass, sh.odata, sh.perms, made.id1).u
               = sh.udata
        ELSE First16(compute_u_value_r34(userpass, sh.revision, sh.keylen,
                                         sh.odata, sh.perms, made.id1).u)
               = First16(sh.udata)

\* C8: for a handler of revision 2, 3 or 4 built by build_from_pw_legacy,
\* authenticate with the builder's id1 returns USER for the user password,
\* else OWNER for the owner password, else FAILED; on USER and OWNER the
\* recorded key is the key derived at build time and the recomputed /U
\* equals the stored /U.
C8_LegacyAuthenticate ==
    (last.op = "authenticate" /\ sh.revision \in {2, 3, 4}
        /\ made.file_id = made.id1)
      => /\ last.result = LegacyExpected(last.credential)
         /\ Authenticated => /\ last.key = made.key
                             /\ sh.shared_key = made.key
                             /\ LegacyURecomputed

\* the owner path of revision 3 or 4 succeeded on a handler read from a file
C8_Witness ==
    /\ last.op = "authenticate" /\ sh.revision \in {3, 4}
    /\ made.file_id = made.id1 /\ made.origin = "loaded"
    /\ last.result = "OWNER" /\ sh.shared_key = made.key
    /\ last.credential[2] # made.user[2]

R6Distinct == r6_normalise_pw(made.owner) # r6_normalise_pw(made.user)

R6Expected(p) ==
    IF r6_normalise_pw(p) = r6_normalise_pw(made.user) THEN "USER"
    ELSE IF r6_normalise_pw(p) = r6_normalise_pw(made.owner) THEN "OWNER"
    ELSE "FAILED"

\* C9: for a revision 6 handler built by build_from_pw with distinct owner
\* and user passwords, authenticate returns USER for the user password,
\* OWNER for the owner password and FAILED for any other; on success the
\* key recovered from /UE or /OE is the random file key of the builder, and
\* it passes the /Perms check.
C9_R6Authenticate ==
    (last.op = "authenticate" /\ sh.revision = 6 /\ R6Distinct
        /\ made.perms = Untouched)
      => /\ last.result = R6Expected(last.credential)
         /\ Authenticated => /\ last.key = Random("encryption_key")
                             /\ last.key = made.key
                             /\ sh.shared_key = made.key
                             /\ PermsOk(sh, last.key)

\* the user password recovered the key from /UE on a handler read from a file
C9_Witness ==
    /\ last.op = "authenticate" /\ sh.revision = 6 /\ R6Distinct
    /\ made.perms = Untouched /\ made.origin = "loaded"
    /\ last.result = "USER" /\ sh.shared_key = Random("encryption_key")

(***************************************************************************)
(* C19: single assignment of the handler's state                           *)
(***************************************************************************)
\* the step is a call of authenticate that returned USER or OWNER
Succeeds ==
    /\ last'.op = "authenticate"
    /\ last'.result \in {"USER", "OWNER"}

\* C19: over any sequence of authenticate calls on one handler, the file
\* encryption key is populated at most once, by the first successful
\* authentication, and is never replaced or cleared afterwards; the
\* auth-failed flag only changes from False to True; and a crypt filter's
\* shared_key, once it has returned a value, returns that same value on
\* every later access.
C19_SingleAssignment ==
    [][ /\ sh.shared_key # None => sh'.shared_key = sh.shared_key
        /\ (sh.shared_key = None /\ sh'.shared_key # None) => Succeeds
        /\ Succeeds => sh'.shared_key # None
        /\ sh.auth_failed => sh'.auth_failed
        /\ \A name \in DOMAIN cf :
             cf[name].shared_key # None =>
                /\ cf'[name].shared_key = cf[name].shared_key
                /\ (last'.op = "shared_key" /\ last'.filter = name)
                     => (last'.result = "key"
                         /\ last'.key = cf[name].shared_key) ]_vars

\* C19 witness: a handler read from a file on which authenticate has failed
\* and has succeeded again while the key was there, and whose filter holds
\* a key it has returned
C19_Witness ==
    /\ made.origin = "loaded"
    /\ last.op = "authenticate"
    /\ last.result \in {"USER", "OWNER"}
    /\ last.before.shared_key # None
    /\ sh.shared_key = last.before.shared_key
    /\ sh.auth_failed
    /\ cf["/StdCF"].shared_key = sh.shared_key

KeyAfterFirstAuthentication ==
    [][ (Authenticated /\ ~made.failed /\ last'.op = "shared_key")
          => (last'.result = "key" /\ last'.key = sh.shared_key) ]_vars

MaxCerts == 3
MaxCms == 3

\* certificates (each with its issuer and serial number, and the private
\* key its decrypter holds), and the lists handed to add_recipients
Certs == 1..MaxCerts
CertLists == {<<2>>, <<1, 2>>}

Seed(name) == <<"seed", name>>
EnvelopeKey(name, n) == <<"envelope_key", name, n>>

\* asymmetric.rsa_pkcs1v15_encrypt under a certificate's public key, and
\* _decrypt under the private key of a certificate
rsa_pkcs1v15_encrypt(cert, data) == <<"rsa", cert, data>>
rsa_pkcs1v15_decrypt(cert, data) ==
    IF data[1] = "rsa" /\ data[2] = cert THEN data[3]
    ELSE <<"rsadec", cert, data>>

\* symmetric.aes_cbc_pkcs7_decrypt
aes_cbc_pkcs7_decrypt(key, data) ==
    IF data[1] = "cat" /\ data[2][1] = "aes" /\ data[2][2] = key
    THEN data[2][3]
    ELSE <<"aes7dec", key, data>>

\* content[:20] of a seed of 20 bytes, alone or followed by the permissions
First20(content) ==
    IF content[1] = "cat" THEN content[2]
    ELSE IF content[1] = "seed" THEN content
    ELSE <<"first20", content>>

construct_envelope_content(seed, perms, include_permissions) ==
    IF include_permissions THEN Cat(seed, Num(perms)) ELSE seed

recipient_info(envelope_key, cert) ==
    [rid |-> cert, encrypted_key |-> rsa_pkcs1v15_encrypt(cert, envelope_key)]

\* construct_recipient_cms, given the envelope key it draws
construct_recipient_cms(certificates, seed, perms, include_permissions, envelope_key) ==
    [recipient_infos |->
         [i \in 1..Len(certificates) |->
              recipient_info(envelope_key, certificates[i])],
     encrypted_content |->
         aes_cbc_pkcs7_encrypt(
             envelope_key,
             construct_envelope_content(seed, perms, include_permissions))]

\* mutant: only the first recipient info of a CMS object is looked at
read_seed_first_info_only(recipient_cms, decrypter) ==
    LET info == recipient_cms.recipient_infos[1]
    IN  IF info.rid # decrypter THEN None
        ELSE First20(aes_cbc_pkcs7_decrypt(
                        rsa_pkcs1v15_decrypt(decrypter, info.encrypted_key),
                        recipient_cms.encrypted_content))

\* read_seed_from_recipient_cms; a decrypter is named by its certificate
read_seed_from_recipient_cms(recipient_cms, decrypter) ==
    LET infos == recipient_cms.recipient_infos
        found == {i \in 1..Len(infos) : infos[i].rid = decrypter}
    IN  IF found = {} THEN None
        ELSE LET first == CHOOSE i \in found : \A j \in found : i <= j
                 envelope_key ==
                     rsa_pkcs1v15_decrypt(decrypter,
                                          infos[first].encrypted_key)
             IN  First20(aes_cbc_pkcs7_decrypt(
                             envelope_key, recipient_cms.encrypted_content))

\* PubKeyCryptFilter.__init__; recipients_none tells a recipients of None
\* from an empty list
PubKeyCryptFilter(recipients_none, recipients, acts_as_default, encrypt_metadata, keylen) ==
    [recipients_none |-> recipients_none, recipients |-> recipients,
     acts_as_default |-> acts_as_default,
     encrypt_metadata |-> encrypt_metadata, keylen |-> keylen,
     pubkey_auth_failed |-> FALSE, shared_key |-> None,
     recp_key_seed |-> None]

\* PubKeyCryptFilter.add_recipients on the filter called name
add_recipients(self, name, certs) ==
    IF ~self.acts_as_default /\ self.recipients # <<>> THEN Raise(self)
    ELSE LET seeded == IF self.recipients_none
                       THEN [self EXCEPT !.recp_key_seed = Seed(name),
                                         !.recipients_none = FALSE]
                       ELSE self
             new_cms == construct_recipient_cms(
                            certs, seeded.recp_key_seed, ALL_PERMS,
                            self.acts_as_default,
                            EnvelopeKey(name, Len(self.recipients) + 1))
         IN  IF seeded.shared_key # None \/ seeded.recp_key_seed = None
             THEN Raise(seeded)
             ELSE Ok([seeded EXCEPT !.recipients = Append(@, new_cms)])

\* PubKeyCryptFilter.authenticate: the seed of the first recipient object
\* that has one for the credential (a recipients of None cannot be looped
\* over)
filter_authenticate(self, credential) ==
    LET seeds == [i \in 1..Len(self.recipients) |->
                     read_seed_from_recipient_cms(self.recipients[i],
                                                  credential)]
        found == {i \in 1..Len(seeds) : seeds[i] # None}
    IN  IF self.recipients_none THEN [self |-> self, res |-> "TypeError"]
        ELSE IF found = {} THEN [self |-> self, res |-> "FAILED"]
        ELSE LET first == CHOOSE i \in found : \A j \in found : i <= j
             IN  [self |-> [self EXCEPT !.recp_key_seed = seeds[first]],
                  res |-> "USER"]

\* PubKeyCryptFilter.derive_shared_encryption_key; None stands for the
\* PdfError it raises
derive_shared_encryption_key(self, version) ==
    IF self.recp_key_seed = None THEN None
    ELSE <<IF version = "AES256" THEN "sha256" ELSE "sha1",
           self.recp_key_seed, self.recipients,
           <<"ffffffff", ~self.encrypt_metadata>>, Num(self.keylen)>>

(***************************************************************************)
(* A public-key handler in use: made with one filter for strings and       *)
(* streams or with one for each, given recipients, written to a file and   *)
(* read back, asked to authenticate and, through its filters, for keys     *)
(***************************************************************************)
\* CryptFilterConfiguration.default_filters is a set: the orders a loop
\* over it may take
DefaultOrders(handler) ==
    IF handler.stmf = handler.strf THEN {<<handler.stmf>>}
    ELSE {<<handler.stmf, handler.strf>>, <<handler.strf, handler.stmf>>}

\* PubKeySecurityHandler.add_recipients, looping in the given order
handler_add_recipients(filters, order, certs) ==
    LET r1 == add_recipients(filters[order[1]], order[1], certs)
        f1 == [filters EXCEPT ![order[1]] = r1.x]
    IN  IF r1.raised \/ Len(order) = 1 THEN [cf |-> f1, raised |-> r1.raised]
        ELSE LET r2 == add_recipients(f1[order[2]], order[2], certs)
             IN  [cf |-> [f1 EXCEPT ![order[2]] = r2.x],
                  raised |-> r2.raised]

\* PubKeySecurityHandler.authenticate, looping in the given order
handler_authenticate(filters, order, credential) ==
    LET r1 == filter_authenticate(filters[order[1]], credential)
        f1 == [filters EXCEPT ![order[1]] = r1.self]
    IN  IF r1.res # "USER" \/ Len(order) = 1 THEN [cf |-> f1, res |-> r1.res]
        ELSE LET r2 == filter_authenticate(f1[order[2]], credential)
             IN  [cf |-> [f1 EXCEPT ![order[2]] = r2.self], res |-> r2.res]

\* PubKeyCryptFilter.as_pdf_object: /Recipients is an array for a default
\* filter and the first recipient object alone for any other
filter_as_pdf_object(self) ==
    [Recipients |-> IF self.acts_as_default THEN <<"array", self.recipients>>
                    ELSE <<"string", self.recipients[1]>>,
     EncryptMetadata |-> self.encrypt_metadata,
     Length |-> self.keylen * 8]

\* read_pubkey_cf_dictionary: a byte string is read as one recipient
\* object, an array as all it holds
read_pubkey_cf_dictionary(cfdict, acts_as_default) ==
    PubKeyCryptFilter(FALSE,
                      IF cfdict.Recipients[1] = "string"
                      THEN <<cfdict.Recipients[2]>>
                      ELSE cfdict.Recipients[2],
                      acts_as_default, cfdict.EncryptMetadata,
                      cfdict.Length \div 8)

\* PubKeyCryptFilter.as_pdf_object and read_pubkey_cf_dictionary after it
reload_filter(self, acts_as_default) ==
    read_pubkey_cf_dictionary(filter_as_pdf_object(self), acts_as_default)

\* the filters named by /StmF and /StrF
default_filters(handler) == {handler.stmf, handler.strf}

\* the recipient objects on the filters called names
RECURSIVE CmsOn(_)
CmsOn(names) ==
    IF names = {} THEN 0
    ELSE LET n == CHOOSE n \in names : TRUE
         IN  Len(cf[n].recipients) + CmsOn(names \ {n})

\* the recipient objects on all filters of the handler
CmsCount == CmsOn(DOMAIN cf)

\* an encryption dictionary's /CF as another producer may write it: the
\* filter that /StmF and /StrF name with an array of one recipient object,
\* and a further filter with one recipient object or an array of two
ForeignRecipient(name, n, acts_as_default) ==
    construct_recipient_cms(<<1, 2>>, Seed(name), ALL_PERMS, acts_as_default,
                            EnvelopeKey(name, n))

ForeignCF(encrypt_metadata, keylen) ==
    { [n \in {"/DefaultCryptFilter", "/Extra"} |->
          [Recipients |->
               IF n = "/DefaultCryptFilter"
               THEN <<"array", <<ForeignRecipient(n, 1, TRUE)>> >>
               ELSE extra,
           EncryptMetadata |-> encrypt_metadata,
           Length |-> keylen * 8]] :
        extra \in {<<"string", ForeignRecipient("/Extra", 1, FALSE)>>,
                   <<"array", <<ForeignRecipient("/Extra", 1, FALSE),
                                ForeignRecipient("/Extra", 2, FALSE)>> >>} }

NoCall ==
    [op |-> "init", filter |-> "", credential |-> 0, id1 |-> None,
     result |-> "", key |-> None,
     before |-> [shared_key |-> None, auth_failed |-> FALSE,
                 cached |-> FALSE]]

\* a handler made with filters that have no recipients yet, one of them
\* possibly not a default filter, or read from an encryption dictionary
InitPubKey ==
    /\ pc = Unused /\ xrefs = Unused /\ startxref = Unused
    /\ kind = Unused /\ file = Unused /\ cur = Unused
    /\ sh = Unused
    /\ last = NoCall
    /\ \E encrypt_metadata \in BOOLEAN :
        LET version == IF encrypt_metadata THEN "AES256" ELSE "RC4_OR_AES128"
            keylen == IF version = "AES256" THEN 32 ELSE 16
        IN  \/ \E names \in {<<"/DefaultCryptFilter", "/DefaultCryptFilter">>,
                              <<"/Stm", "/Str">>},
                   others \in {{}, {"/Extra"}} :
                  /\ made = [origin |-> "built", ok |-> FALSE,
                             failed |-> FALSE, by |-> 0]
                  /\ pkh = [version |-> version, stmf |-> names[1],
                            strf |-> names[2]]
                  /\ cf = [n \in {names[1], names[2]} \cup others |->
                              PubKeyCryptFilter(TRUE, <<>>,
                                                n \in {names[1], names[2]},
                                                encrypt_metadata, keylen)]
            \/ \E dict \in ForeignCF(encrypt_metadata, keylen) :
                  /\ made = [origin |-> "loaded", ok |-> FALSE,
                             failed |-> FALSE, by |-> 0]
                  /\ pkh = [version |-> version,
                            stmf |-> "/DefaultCryptFilter",
                            strf |-> "/DefaultCryptFilter"]
                  /\ cf = [n \in DOMAIN dict |->
                              read_pubkey_cf_dictionary(
                                  dict[n], n \in default_filters(pkh))]

PkBefore(name) ==
    [shared_key |-> None, auth_failed |-> FALSE,
     cached |-> name # "" /\ cf[name].shared_key # None]

\* PubKeySecurityHandler.add_recipients
PkAddRecipients ==
    /\ CmsCount + Cardinality(default_filters(pkh)) <= MaxCms
    /\ \E certs \in CertLists, order \in DefaultOrders(pkh) :
        \E r \in {handler_add_recipients(cf, order, certs)} :
            /\ cf' = r.cf
            /\ last' = [NoCall EXCEPT
                          !.op = "add_recipients",
                          !.result = IF r.raised THEN "PdfError" ELSE "",
                          !.before = PkBefore("")]
    /\ UNCHANGED <<sh, pkh, made>>
    /\ UNCHANGED xvars

\* PubKeyCryptFilter.add_recipients on one filter of the handler
PkFilterAddRecipients ==
    /\ \E name \in DOMAIN cf, certs \in CertLists :
        \E r \in {add_recipients(cf[name], name, certs)} :
            /\ CmsCount < MaxCms
            /\ cf' = [cf EXCEPT ![name] = r.x]
            /\ last' = [NoCall EXCEPT
                          !.op = "add_recipients", !.filter = name,
                          !.result = IF r.raised THEN "PdfError" ELSE "",
                          !.before = PkBefore(name)]
    /\ UNCHANGED <<sh, pkh, made>>
    /\ UNCHANGED xvars

\* PubKeySecurityHandler.as_pdf_object, and instantiate_from_pdf_object on
\* what it wrote: a new handler with new filters
PkReload ==
    /\ \A n \in DOMAIN cf : cf[n].recipients # <<>>
    /\ cf' = [n \in DOMAIN cf |->
                reload_filter(cf[n], n \in default_filters(pkh))]
    /\ made' = [origin |-> "loaded", ok |-> FALSE, failed |-> FALSE,
                by |-> 0]
    /\ last' = [NoCall EXCEPT !.op = "instantiate"]
    /\ UNCHANGED <<sh, pkh>>
    /\ UNCHANGED xvars

PkAuthenticate ==
    /\ \E credential \in Certs, order \in DefaultOrders(pkh) :
        \E r \in {handler_authenticate(cf, order, credential)} :
            /\ cf' = r.cf
            /\ last' = [NoCall EXCEPT
                          !.op = "authenticate", !.credential = credential,
                          !.result = r.res, !.before = PkBefore("")]
            /\ made' = [made EXCEPT
                          !.ok = @ \/ r.res = "USER",
                          !.failed = @ \/ r.res = "FAILED",
                          !.by = IF r.res = "USER" THEN credential ELSE @]
    /\ UNCHANGED <<sh, pkh>>
    /\ UNCHANGED xvars

\* PubKeyCryptFilter: _auth_failed is the filter's _pubkey_auth_failed
PkSharedKey ==
    /\ \E name \in DOMAIN cf :
        \E r \in {shared_key(cf[name], cf[name].pubkey_auth_failed,
                            derive_shared_encryption_key(cf[name],
                                                         pkh.version),
                            "PdfError")} :
            /\ cf' = [cf EXCEPT ![name] = r.self]
            /\ last' = [NoCall EXCEPT
                          !.op = "shared_key", !.filter = name,
                          !.result = r.res, !.key = r.key,
                          !.before = PkBefore(name)]
    /\ UNCHANGED <<sh, pkh, made>>
    /\ UNCHANGED xvars

NextPubKey ==
    \/ PkAddRecipients
    \/ PkFilterAddRecipients
    \/ PkReload
    \/ PkAuthenticate
    \/ PkSharedKey

SpecPubKey == InitPubKey /\ [][NextPubKey]_vars

(***************************************************************************)
(* Claims about handlers read from a file, and the public-key handler      *)
(***************************************************************************)
\* C6: on a handler instantiated from an encryption dictionary, a crypt
\* filter's shared_key returns a key only if an earlier authenticate call on
\* the handler returned USER or OWNER; before that it raises.
C6_KeyOnlyAfterAuthenticate ==
    (made.origin = "loaded" /\ AccessedKey /\ last.result = "key") => made.ok

OneDefaultFilter == pkh.stmf = pkh.strf

\* the same, where strings and streams share one default filter
C6_HoldsWithOneDefaultFilter ==
    (made.origin = "loaded" /\ AccessedKey /\ last.result = "key"
        /\ OneDefaultFilter)
      => made.ok

DefaultFilter == cf[pkh.stmf]

\* C10: on a public-key handler with one default filter, authenticating
\* with the decrypter of any recipient returns USER and recovers the seed
\* the recipients were given, a decrypter no recipient info names returns
\* FAILED, and the shared key is made of the seed, the recipient objects,
\* the metadata flag and the key length alone.
C10_AnyRecipientSameKey ==
    (OneDefaultFilter /\ ~DefaultFilter.recipients_none)
      => /\ last.op = "authenticate"
              => IF \E i \in 1..Len(DefaultFilter.recipients) :
                      \E j \in 1..Len(DefaultFilter.recipients[i]
                                        .recipient_infos) :
                          DefaultFilter.recipients[i].recipient_infos[j].rid
                            = last.credential
                 THEN /\ last.result = "USER"
                      /\ DefaultFilter.recp_key_seed = Seed(pkh.stmf)
                 ELSE last.result = "FAILED"
         /\ (AccessedKey /\ last.result = "key" /\ last.filter = pkh.stmf)
              => last.key =
                   <<IF pkh.version = "AES256" THEN "sha256" ELSE "sha1",
                     Seed(pkh.stmf), DefaultFilter.recipients,
                     <<"ffffffff", ~DefaultFilter.encrypt_metadata>>,
                     Num(DefaultFilter.keylen)>>

\* the second certificate of a recipient object, after another object of
\* the same filter, obtained the key from a handler read from a file
C10_Witness ==
    /\ OneDefaultFilter /\ made.origin = "loaded" /\ made.by = 1
    /\ AccessedKey /\ last.result = "key" /\ last.filter = pkh.stmf
    /\ Len(DefaultFilter.recipients) = 2
    /\ Len(DefaultFilter.recipients[1].recipient_infos) = 1

(***************************************************************************)
(* C20: PubKeySecurityHandler.authenticate                                 *)
(***************************************************************************)
\* some recipient object of the filter holds the seed for the credential
Matches(filter, credential) ==
    \E i \in 1..Len(filter.recipients) :
        read_seed_from_recipient_cms(filter.recipients[i], credential) # None

\* every default filter has a list of recipient objects (as after
\* add_recipients, and on every handler read from a file)
HasRecipientLists(filters) ==
    \A name \in default_filters(pkh) : ~filters[name].recipients_none

\* authenticate returns FAILED if some default filter has no recipient
\* object matching the credential, and USER otherwise
AuthenticateResult ==
    [][ (last'.op = "authenticate" /\ HasRecipientLists(cf))
          => last'.result =
               IF \E name \in default_filters(pkh) :
                     ~Matches(cf[name], last'.credential)
               THEN "FAILED" ELSE "USER" ]_vars

\* C20: PubKeySecurityHandler.authenticate returns FAILED if at least one
\* default filter has no recipient object matching the credential and USER
\* otherwise, never OWNER; after a FAILED result, access to the shared key
\* of the failing filter raises an error and produces no key.
C20_PubKeyAuthenticate ==
    [][ /\ (last'.op = "authenticate" /\ HasRecipientLists(cf))
             => last'.result =
                  IF \E name \in default_filters(pkh) :
                        ~Matches(cf[name], last'.credential)
                  THEN "FAILED" ELSE "USER"
        /\ (/\ last.op = "authenticate" /\ last.result = "FAILED"
            /\ last'.op = "shared_key"
            /\ ~Matches(cf[last'.filter], last.credential))
             => (last'.result # "key" /\ last'.key = None) ]_vars

(***************************************************************************)
(* C30: a FAILED authenticate and the filters' seeds                       *)
(***************************************************************************)
\* C30: a PubKeySecurityHandler.authenticate call that returns FAILED
\* changes no crypt filter's recipient seed, so no shared key becomes
\* derivable from a FAILED authentication.
C30_FailedLeavesSeeds ==
    [][ (last'.op = "authenticate" /\ last'.result = "FAILED")
          => \A name \in DOMAIN cf :
                /\ cf'[name].recp_key_seed = cf[name].recp_key_seed
                /\ derive_shared_encryption_key(cf'[name], pkh.version)
                     = derive_shared_encryption_key(cf[name], pkh.version)
      ]_vars

\* the same on handlers with one default filter for strings and streams
FailedLeavesSeedOfOneFilter ==
    [][ (last'.op = "authenticate" /\ last'.result = "FAILED"
            /\ OneDefaultFilter)
          => \A name \in DOMAIN cf :
                cf'[name].recp_key_seed = cf[name].recp_key_seed ]_vars

(***************************************************************************)
(* C21: PubKeyCryptFilter.add_recipients                                   *)
(***************************************************************************)
\* the filter has derived its shared key, or has a recipient list and no
\* seed
NoMoreRecipients(filter) ==
    \/ filter.shared_key # None
    \/ (~filter.recipients_none /\ filter.recp_key_seed = None)

\* add_recipients on a filter that derived its key, or has recipients and
\* no seed, raises and leaves recipients and seed as they were; no call of
\* add_recipients changes the recipients of a filter that returned its key
AddRecipientsRaises ==
    [][ last'.op = "add_recipients"
          => /\ (last'.filter # "" /\ NoMoreRecipients(cf[last'.filter]))
                  => /\ last'.result = "PdfError"
                     /\ cf'[last'.filter].recipients
                          = cf[last'.filter].recipients
                     /\ cf'[last'.filter].recp_key_seed
                          = cf[last'.filter].recp_key_seed
             /\ \A name \in DOMAIN cf :
                   cf[name].shared_key # None
                     => cf'[name].recipients = cf[name].recipients ]_vars

\* a filter that returned its key was asked for more recipients and raised
AddRecipientsRaises_Witness ==
    /\ last.op = "add_recipients" /\ last.filter # ""
    /\ last.result = "PdfError"
    /\ cf[last.filter].shared_key # None
    /\ Len(cf[last.filter].recipients) > 0

\* no step of add_recipients gives a non-default filter a second recipient
\* object
AddRecipientsKeepsOneOnNonDefault ==
    [][ last'.op = "add_recipients"
          => \A name \in DOMAIN cf :
                (~cf[name].acts_as_default
                    /\ Len(cf'[name].recipients) > Len(cf[name].recipients))
                  => Len(cf'[name].recipients) = 1 ]_vars

\* C21: add_recipients raises and leaves the recipient list and the seed
\* unchanged when the filter's shared key has been derived or when the
\* filter has recipients and no seed, so the recipient objects that entered
\* a returned shared key no longer change through add_recipients; and a
\* non-default filter never holds more than one recipient object.
C21_AddRecipients ==
    [][ /\ last'.op = "add_recipients"
          => /\ (last'.filter # "" /\ NoMoreRecipients(cf[last'.filter]))
                  => /\ last'.result = "PdfError"
                     /\ cf'[last'.filter].recipients
                          = cf[last'.filter].recipients
                     /\ cf'[last'.filter].recp_key_seed
                          = cf[last'.filter].recp_key_seed
             /\ \A name \in DOMAIN cf :
                   cf[name].shared_key # None
                     => cf'[name].recipients = cf[name].recipients
        /\ \A name \in DOMAIN cf' :
              ~cf'[name].acts_as_default
                => Len(cf'[name].recipients) <= 1 ]_vars

(***************************************************************************)
(* Crypt filters at work: a filter that holds its shared key encrypts the  *)
(* strings and streams of an object under the object's key and decrypts    *)
(* them again                                                              *)
(***************************************************************************)
\* the largest number of plaintexts an object is given to choose from
MaxPlain == 2
\* the largest number of IVs that secrets.token_bytes can come up with
MaxIv == 2

\* the objects whose strings are encrypted: ids 1 and 2, and an id that
\* agrees with 1 in its three low bytes
ObjIds == {1, 2, 16777217}
ObjGens == {0, 1}

\* secrets.token_bytes(n): n bytes, named by the draw
token_bytes(n, name) == <<"token", n, name>>

\* len(x) of a byte string whose length the term tells (-1: it does not)
Size(x) == IF x[1] = "token" THEN x[2] ELSE -1

\* x[:16] and x[16:]
Head16(x) ==
    IF x[1] = "cat" /\ Size(x[2]) = 16 THEN x[2] ELSE <<"head16", x>>
Tail16(x) ==
    IF x[1] = "cat" /\ Size(x[2]) = 16 THEN x[3] ELSE <<"tail16", x>>

\* the file encryption keys a filter may hold, of keylen bytes
FileKey(name, keylen) == <<"filekey", name, keylen>>

\* struct.pack("<i", n)[:k]
Pack(n, k) == <<"pack", IF k = 3 THEN n % 16777216 ELSE n % 65536, k>>

\* legacy_derive_object_key
legacy_derive_object_key(file_key, idnum, generation, use_aes) ==
    LET pack1 == Pack(idnum, 3)
        pack2 == Pack(generation, 2)
        key == IF use_aes THEN <<file_key, pack1, pack2, <<"sAlT">>>>
               ELSE <<file_key, pack1, pack2>>
        n == IF 16 < file_key[3] + 5 THEN 16 ELSE file_key[3] + 5
    IN  Trunc(Md5(key), n)

\* symmetric.aes_cbc_pkcs7_encrypt(key, data, iv): the pair it returns
aes_cbc_pkcs7_encrypt_iv(key, data, iv) ==
    <<iv, <<"aescbc7", key, iv, data>>>>

\* symmetric.aes_cbc_pkcs7_decrypt(key, data, iv)
aes_cbc_pkcs7_decrypt_iv(key, data, iv) ==
    IF data[1] = "aescbc7" /\ data[2] = key /\ data[3] = iv THEN data[4]
    ELSE <<"aescbc7dec", key, iv, data>>

\* the filter classes, by their /CFM
IdentityCryptFilter == [method |-> "/None", keylen |-> 0, shared_key |-> None]
RC4CryptFilterMixin(keylen, key) ==
    [method |-> "/V2", keylen |-> keylen, shared_key |-> key]
AESCryptFilterMixin(keylen, key) ==
    [method |-> IF keylen = 16 THEN "/AESV2" ELSE "/AESV3",
     keylen |-> keylen, shared_key |-> key]

\* derive_object_key of the three classes; version is the handler's
derive_object_key(self, version, idnum, generation) ==
    IF self.method = "/None" THEN <<"empty">>
    ELSE IF self.method = "/V2"
    THEN legacy_derive_object_key(self.shared_key, idnum, generation, FALSE)
    ELSE IF version >= 5 THEN self.shared_key
    ELSE legacy_derive_object_key(self.shared_key, idnum, generation, TRUE)

\* encrypt of the three classes; iv is what secrets.token_bytes(16) gave
encrypt(self, key, plaintext, iv) ==
    IF self.method = "/None" THEN plaintext
    ELSE IF self.method = "/V2" THEN rc4_encrypt(key, plaintext)
    ELSE LET res == aes_cbc_pkcs7_encrypt_iv(key, plaintext, iv)
         IN  Cat(res[1], res[2])

\* mutant: the AES filter decrypts the whole string under a zero IV
decrypt_iv_not_split(self, key, ciphertext) ==
    IF self.method = "/None" THEN ciphertext
    ELSE IF self.method = "/V2" THEN rc4_encrypt(key, ciphertext)
    ELSE aes_cbc_pkcs7_decrypt_iv(key, ciphertext, Zeros16)

\* decrypt of the three classes
decrypt(self, key, ciphertext) ==
    IF self.method = "/None" THEN ciphertext
    ELSE IF self.method = "/V2" THEN rc4_encrypt(key, ciphertext)
    ELSE aes_cbc_pkcs7_decrypt_iv(key, Tail16(ciphertext),
                                  Head16(ciphertext))

\* the byte strings of an object before encryption
Plain(n) == <<"plain", n>>
Plaintexts == {Plain(n) : n \in 1..MaxPlain}

\* the filters with the handler versions they are used under
FilterSetups ==
    {[filter |-> IdentityCryptFilter, version |-> 4]}
    \cup {[filter |-> RC4CryptFilterMixin(5, FileKey(n, 5)), version |-> 1]
             : n \in 1..2}
    \cup {[filter |-> RC4CryptFilterMixin(16, FileKey(n, 16)), version |-> v]
             : n \in 1..2, v \in {2, 4}}
    \cup {[filter |-> AESCryptFilterMixin(16, FileKey(n, 16)), version |-> 4]
             : n \in 1..2}
    \cup {[filter |-> AESCryptFilterMixin(32, FileKey(n, 32)), version |-> 5]
             : n \in 1..2}

\* sh: the handler's version; cf: the filter; made: the latest encryption
\* (object, plaintext, IV, ciphertext); last: the latest call
InitFilter ==
    /\ pc = Unused /\ xrefs = Unused /\ startxref = Unused
    /\ kind = Unused /\ file = Unused /\ cur = Unused
    /\ pkh = Unused
    /\ \E s \in FilterSetups :
        /\ cf = s.filter
        /\ sh = [version |-> s.version]
    /\ made = [obj |-> <<0, 0>>, plaintext |-> None, iv |-> None,
               ciphertext |-> None, depth |-> 0]
    /\ last = [op |-> "init", obj |-> <<0, 0>>, out |-> None]

\* a string of object (idnum, generation) is encrypted: a fresh plaintext,
\* or the ciphertext made before (a string encrypted twice)
FilterEncrypt ==
    /\ \E idnum \in ObjIds, generation \in ObjGens,
          p \in Plaintexts \cup {made.ciphertext}, n \in 1..MaxIv :
        /\ p # None
        /\ p \in Plaintexts \/ made.depth < 2
        /\ \E k \in {derive_object_key(cf, sh.version, idnum, generation)} :
           \E iv \in {token_bytes(16, n)} :
           \E c \in {encrypt(cf, k, p, iv)} :
            /\ made' = [obj |-> <<idnum, generation>>, plaintext |-> p,
                        iv |-> iv, ciphertext |-> c,
                        depth |-> IF p \in Plaintexts THEN 1
                                  ELSE made.depth + 1]
            /\ last' = [op |-> "encrypt", obj |-> <<idnum, generation>>,
                        out |-> c]
    /\ UNCHANGED <<sh, cf, pkh>>
    /\ UNCHANGED xvars

\* the string made by the latest encryption is decrypted as a string of
\* object (idnum, generation)
FilterDecrypt ==
    /\ made.ciphertext # None
    /\ \E idnum \in ObjIds, generation \in ObjGens :
        \E k \in {derive_object_key(cf, sh.version, idnum, generation)} :
            last' = [op |-> "decrypt", obj |-> <<idnum, generation>>,
                     out |-> decrypt(cf, k, made.ciphertext)]
    /\ UNCHANGED <<sh, cf, pkh, made>>
    /\ UNCHANGED xvars

NextFilter ==
    \/ FilterEncrypt
    \/ FilterDecrypt

SpecFilter == InitFilter /\ [][NextFilter]_vars

(***************************************************************************)
(* C11: round trip through a crypt filter                                  *)
(***************************************************************************)
\* C11: for every crypt filter (Identity, /V2, /AESV2, /AESV3), shared key,
\* object (id, generation) and byte string p, decrypting under the object's
\* key what encrypt made of p under that key gives p back, whatever IV
\* encrypt drew; an AES filter's ciphertext is the 16-byte IV followed by
\* the PKCS#7-padded CBC ciphertext of p under that key and IV.
C11_RoundTrip ==
    /\ (last.op = "decrypt" /\ last.obj = made.obj)
          => last.out = made.plaintext
    /\ (made.ciphertext # None /\ cf.method \in {"/AESV2", "/AESV3"})
          => /\ Size(made.iv) = 16
             /\ made.ciphertext =
                  Cat(made.iv,
                      <<"aescbc7",
                        derive_object_key(cf, sh.version, made.obj[1],
                                          made.obj[2]),
                        made.iv, made.plaintext>>)

\* C11 witness: an AES-128 filter decrypted, under the key of the same
\* object, a string that was encrypted twice
C11_Witness ==
    /\ last.op = "decrypt" /\ last.obj = made.obj
    /\ cf.method = "/AESV2"
    /\ made.depth = 2
    /\ last.out = made.plaintext
    /\ made.plaintext \notin Plaintexts

(***************************************************************************)
(* TrailerDictionary: the trailers of the xref sections, newest first,     *)
(* under an overlay of changes made after reading                          *)
(***************************************************************************)
\* the largest number of trailer revisions
MaxTrailers == 3

\* trailer keys, among them two that frame an xref stream, and the values
\* the file and the overlay give them
TrailerKeys == {"/Info", "/W", "/Type"}
FileValues == {"a", "b"}
NewValues == {"c"}

\* the trailer dictionaries a section may bring
TrailerDicts ==
    UNION {[ks -> FileValues] : ks \in SUBSET {"/Info", "/W"}}
      \cup {[k \in {"/Type", "/Info"} |-> "a"]}

\* TrailerDictionary.__init__
TrailerDictionary == [trailer_revisions |-> <<>>, new_changes |-> EmptyDict]

\* TrailerDictionary.add_trailer_revision
add_trailer_revision(self, trailer_dict) ==
    [self EXCEPT !.trailer_revisions = Append(@, trailer_dict)]

\* s[i:] of a Python list
SliceFrom(s, i) ==
    LET n == Len(s)
        start == IF i < 0 THEN (IF n + i < 0 THEN 0 ELSE n + i)
                 ELSE (IF i > n THEN n ELSE i)
    IN  SubSeq(s, start + 1, n)

\* the KeyError of a lookup
KeyError == "KeyError"

\* the loop of raw_get: the value of key in the first dictionary, from the
\* i-th on, that has it
RECURSIVE FirstWith(_, _, _)
FirstWith(revisions, key, i) ==
    IF i > Len(revisions) THEN KeyError
    ELSE IF key \in DOMAIN revisions[i] THEN revisions[i][key]
    ELSE FirstWith(revisions, key, i + 1)

\* TrailerDictionary.raw_get(key, revision=...); revision -1 is None
raw_get(self, key, revision) ==
    IF revision = -1 /\ key \in DOMAIN self.new_changes
    THEN self.new_changes[key]
    ELSE LET revisions ==
                 IF revision = -1 THEN self.trailer_revisions
                 ELSE SliceFrom(self.trailer_revisions,
                                Len(self.trailer_revisions) - 1 - revision)
         IN  FirstWith(revisions, key, 1)

\* dict.update
Update(d, e) ==
    [k \in (DOMAIN d) \cup (DOMAIN e) |-> IF k \in DOMAIN e THEN e[k] ELSE d[k]]

\* the dictionary comprehension of flatten over dicts[i], dicts[i+1], ...
RECURSIVE Merged(_, _)
Merged(dicts, i) ==
    IF i > Len(dicts) THEN EmptyDict
    ELSE Update(dicts[i], Merged(dicts, i + 1))

\* reversed(s)
Reversed(s) == [i \in 1..Len(s) |-> s[Len(s) + 1 - i]]

\* the keys that flatten pops
Suppressed == {"/Length", "/Filter", "/DecodeParms", "/W", "/Type", "/Index"}
Popped(d) == [k \in (DOMAIN d) \ Suppressed |-> d[k]]

\* mutant: the sections are merged newest first, so that older ones win
flatten_unreversed(self, revision) ==
    LET relevant == IF revision = -1 THEN self.trailer_revisions
                    ELSE SliceFrom(self.trailer_revisions, -revision - 1)
        trailer == Merged(relevant, 1)
    IN  Popped(IF revision = -1 THEN Update(trailer, self.new_changes)
               ELSE trailer)

\* TrailerDictionary.flatten(revision); revision -1 is None
flatten(self, revision) ==
    LET relevant == IF revision = -1 THEN self.trailer_revisions
                    ELSE SliceFrom(self.trailer_revisions, -revision - 1)
        trailer == Merged(Reversed(relevant), 1)
    IN  Popped(IF revision = -1 THEN Update(trailer, self.new_changes)
               ELSE trailer)

\* TrailerDictionary.__setitem__ and __delitem__
trailer_setitem(self, item, value) ==
    [self EXCEPT !.new_changes = Put(@, item, value)]
trailer_delitem(self, item) ==
    IF item \in DOMAIN self.new_changes
    THEN Ok([self EXCEPT !.new_changes = Del(@, item)])
    ELSE Raise(self)

\* made: the TrailerDictionary; pc: whether the reader is still adding
\* revisions; last: the latest call
InitTrailer ==
    /\ xrefs = Unused /\ startxref = Unused
    /\ kind = Unused /\ file = Unused /\ cur = Unused
    /\ sh = Unused /\ cf = Unused /\ pkh = Unused
    /\ pc = "reading"
    /\ made = TrailerDictionary
    /\ last = [op |-> "init", raised |-> FALSE]

\* _read_xref_table / _read_xref_stream hand over the trailer of a section
TrAddRevision ==
    /\ pc = "reading"
    /\ Len(made.trailer_revisions) < MaxTrailers
    /\ \E d \in TrailerDicts :
        made' = add_trailer_revision(made, d)
    /\ last' = [op |-> "add_trailer_revision", raised |-> FALSE]
    /\ UNCHANGED <<pc, xrefs, startxref, kind, file, cur, sh, cf, pkh>>

\* the last section had no /Prev
TrDone ==
    /\ pc = "reading"
    /\ made.trailer_revisions # <<>>
    /\ pc' = "done"
    /\ last' = [op |-> "read", raised |-> FALSE]
    /\ UNCHANGED <<made, xrefs, startxref, kind, file, cur, sh, cf, pkh>>

TrSetItem ==
    /\ pc = "done"
    /\ \E item \in TrailerKeys, value \in NewValues :
        made' = trailer_setitem(made, item, value)
    /\ last' = [op |-> "setitem", raised |-> FALSE]
    /\ UNCHANGED <<pc, xrefs, startxref, kind, file, cur, sh, cf, pkh>>

TrDelItem ==
    /\ pc = "done"
    /\ \E item \in TrailerKeys :
        \E r \in {trailer_delitem(made, item)} :
            /\ made' = r.x
            /\ last' = [op |-> "delitem", raised |-> r.raised]
    /\ UNCHANGED <<pc, xrefs, startxref, kind, file, cur, sh, cf, pkh>>

NextTrailer ==
    \/ TrAddRevision
    \/ TrDone
    \/ TrSetItem
    \/ TrDelItem

SpecTrailer == InitTrailer /\ [][NextTrailer]_vars

(***************************************************************************)
(* C14: trailer views                                                      *)
(***************************************************************************)
\* the trailer written by revision j (0: the oldest)
TrailerOfRevision(j) ==
    made.trailer_revisions[Len(made.trailer_revisions) - j]

\* the revisions <= r whose trailer defines key
Defining(key, r) == {j \in 0..r : key \in DOMAIN TrailerOfRevision(j)}

\* the value of key in the newest revision <= r that defines it
NewestValue(key, r) ==
    IF Defining(key, r) = {} THEN KeyError
    ELSE TrailerOfRevision(CHOOSE j \in Defining(key, r) :
                               \A o \in Defining(key, r) : o <= j)[key]

\* C14: with no revision given, raw_get(key) is the overlay's value if the
\* overlay has key, else the value from the newest section that defines
\* key; for every revision r in 0..total-1 and every key outside the
\* suppressed set, flatten(r)[key] equals raw_get(key, revision=r), both
\* being the value from the newest section of revision <= r that defines
\* key, whatever the overlay and newer sections hold; flatten never
\* contains a suppressed key.
C14_TrailerViews ==
    LET total == Len(made.trailer_revisions)
    IN  /\ \A key \in TrailerKeys :
             raw_get(made, key, -1) =
                 IF key \in DOMAIN made.new_changes
                 THEN made.new_changes[key]
                 ELSE NewestValue(key, total - 1)
        /\ \A r \in 0..(total - 1) :
             /\ \A key \in TrailerKeys \ Suppressed :
                  /\ raw_get(made, key, r) = NewestValue(key, r)
                  /\ key \in DOMAIN flatten(made, r)
                        <=> raw_get(made, key, r) # KeyError
                  /\ key \in DOMAIN flatten(made, r)
                        => flatten(made, r)[key] = raw_get(made, key, r)
             /\ DOMAIN flatten(made, r) \cap Suppressed = {}
        /\ DOMAIN flatten(made, -1) \cap Suppressed = {}

\* C14 witness: three revisions, /Info differing between the oldest and the
\* middle one and missing from the newest, a suppressed key in a section
\* and /Info in the overlay
C14_Witness ==
    /\ pc = "done"
    /\ Len(made.trailer_revisions) = 3
    /\ "/Info" \in DOMAIN made.new_changes
    /\ "/Info" \notin DOMAIN made.trailer_revisions[1]
    /\ "/Info" \in DOMAIN made.trailer_revisions[2]
    /\ "/Info" \in DOMAIN made.trailer_revisions[3]
    /\ made.trailer_revisions[2]["/Info"] # made.trailer_revisions[3]["/Info"]
    /\ "/W" \in DOMAIN made.trailer_revisions[3]
    /\ flatten(made, 1)["/Info"] = made.trailer_revisions[2]["/Info"]
    /\ flatten(made, 0)["/Info"] = made.trailer_revisions[3]["/Info"]

(***************************************************************************)
(* Objects of a file, and the HistoricalResolver's view of a revision      *)
(***************************************************************************)
\* the largest object id asked for (the files hold objects 1 to 4)
MaxObj == 5
\* the largest number of incremental updates of a file
MaxUpdates == 1

\* generic.IndirectObject, DictionaryObject, StreamObject, ArrayObject and
\* NameObject; pdf names the handler a reference is bound to
IndirectObject(idnum, generation, pdf) ==
    [t |-> "ref", idnum |-> idnum, generation |-> generation, pdf |-> pdf]
DictionaryObject(d) == [t |-> "dict", d |-> d]
StreamObject(d, encoded_data) ==
    [t |-> "stream", d |-> d, encoded_data |-> encoded_data]
ArrayObject(s) == [t |-> "array", s |-> s]
NameObject(n) == [t |-> "name", v |-> n]

\* a reference as the parser makes it: bound to the reader
Ind(idnum) == IndirectObject(idnum, 0, "reader")

\* what a call raised
Raised(error) == [t |-> error]
IsError(obj) ==
    obj.t \in {"PdfReadError", "KeyError", "RecursionError", "none"}

\* the shapes of the catalog's /Extra entry and of object 4
ExtraShapes ==
    {NameObject("/none"), Ind(5), ArrayObject(<<Ind(4), Ind(3)>>)}
AnnotShapes ==
    {DictionaryObject([k \in {"/P"} |-> Ind(3)]),
     StreamObject([k \in {"/Self"} |-> Ind(4)], "data"),
     DictionaryObject([k \in {"/Up"} |->
         DictionaryObject([j \in {"/Cat"} |-> Ind(1)])])}

\* the document catalog, the root of the page tree (with its page, or with
\* itself among its kids as well), and the page
Catalog(extra) ==
    DictionaryObject([k \in {"/Pages", "/Extra"} |->
        IF k = "/Pages" THEN Ind(2) ELSE extra])
Pages(kids) ==
    DictionaryObject([k \in {"/Type", "/Kids"} |->
        IF k = "/Type" THEN NameObject("/Pages") ELSE ArrayObject(kids)])
Page ==
    DictionaryObject([k \in {"/Type", "/Parent", "/Annots"} |->
        IF k = "/Type" THEN NameObject("/Page")
        ELSE IF k = "/Parent" THEN Ind(2)
        ELSE ArrayObject(<<Ind(4)>>)])

\* an xref section's in-use entry for object idnum, and the object written
Written(idnum, obj) == [id |-> idnum, gen |-> 0, obj |-> obj]

\* the first revision of a file, and the incremental updates it may get:
\* each rewrites one object
FirstRevisions ==
    {<<Written(1, Catalog(x)), Written(2, Pages(<<Ind(3)>>)),
       Written(3, Page), Written(4, a)>> :
        x \in ExtraShapes, a \in AnnotShapes}
Updates ==
    {<<Written(1, Catalog(x))>> : x \in ExtraShapes}
    \cup {<<Written(4, a)>> : a \in AnnotShapes}
    \cup {<<Written(2, Pages(<<Ind(3), Ind(2)>>))>>,
          <<Written(5, NameObject("/new"))>>}

\* the trailer dictionary written by revision j (0: the oldest)
TrailerOf(j) ==
    [key \in {"/Root", "/Size"} \cup (IF j > 0 THEN {"/Prev"} ELSE {}) |->
        IF key = "/Root" THEN Ind(1)
        ELSE IF key = "/Size" THEN NameObject("6")
        ELSE NameObject("prev")]

\* read_xref_table on the entries of the section parsed k-th, from entry p
RECURSIVE ReadEntries(_, _, _, _)
ReadEntries(c, entries, k, p) ==
    IF p > Len(entries) THEN c
    ELSE LET Rest(c1) == ReadEntries(c1, entries, k, p + 1)
         IN  Call(Rest, put_ref(c, entries[p].id, entries[p].gen,
                                EntryOffset(k, p - 1)).x)

\* _read_xrefs on a file of xref tables (sections newest first), from the
\* section parsed k-th
RECURSIVE ReadSections(_, _, _)
ReadSections(c, sections, k) ==
    IF k >= Len(sections) THEN c
    ELSE LET Located(c0) ==
                 [c0 EXCEPT !.xref_locations = Append(@, SectionLocation(k))]
             Closed(c1) ==
                 [next_section(c1) EXCEPT !.xref_container_info =
                      Append(@, <<"table", SectionLocation(k)>>)]
             Rest(c2) == ReadSections(c2, sections, k + 1)
         IN  Call(Rest, Call(Closed,
                 ReadEntries(Located(c), sections[k + 1], k, 1)))

\* PdfFileReader._read_object of an offset marker: the object written there
read_object(sections, marker) ==
    sections[(marker.a \div 10)][(marker.a % 10) + 1].obj

\* mutant: what a historical read returns is kept in resolved_objects
reader_get_object_caching(cache, c, sections, ref, revision) ==
    LET ix == <<ref.generation, ref.idnum>>
        marker == IF revision = -1 THEN xref_getitem(c, ref)
                  ELSE get_historical_ref(c, ref, revision)
    IN  IF revision = -1 /\ ix \in DOMAIN cache
        THEN [cache |-> cache, out |-> cache[ix]]
        ELSE IF marker = PdfReadError
        THEN [cache |-> cache, out |-> Raised("PdfReadError")]
        ELSE [cache |-> Put(cache, ix, read_object(sections, marker)),
              out |-> read_object(sections, marker)]

\* PdfFileReader.get_object(ref, revision); revision -1 is None.  cache is
\* resolved_objects; the result tells the cache afterwards
reader_get_object(cache, c, sections, ref, revision) ==
    LET ix == <<ref.generation, ref.idnum>>
        marker == IF revision = -1 THEN xref_getitem(c, ref)
                  ELSE get_historical_ref(c, ref, revision)
    IN  IF revision = -1 /\ ix \in DOMAIN cache
        THEN [cache |-> cache, out |-> cache[ix]]
        ELSE IF marker = PdfReadError
        THEN [cache |-> cache, out |-> Raised("PdfReadError")]
        ELSE IF revision = -1
        THEN [cache |-> Put(cache, ix, read_object(sections, marker)),
              out |-> read_object(sections, marker)]
        ELSE [cache |-> cache, out |-> read_object(sections, marker)]

\* mutant: arrays are returned as they are
RECURSIVE subsume_object_arrays_skipped(_)
subsume_object_arrays_skipped(obj) ==
    IF obj.t = "ref"
    THEN IndirectObject(obj.idnum, obj.generation, "resolver")
    ELSE IF obj.t = "stream"
    THEN StreamObject([k \in DOMAIN obj.d |->
                          subsume_object_arrays_skipped(obj.d[k])],
                      obj.encoded_data)
    ELSE IF obj.t = "dict"
    THEN DictionaryObject([k \in DOMAIN obj.d |->
                              subsume_object_arrays_skipped(obj.d[k])])
    ELSE obj

\* HistoricalResolver._subsume_object
RECURSIVE subsume_object(_)
subsume_object(obj) ==
    IF obj.t = "ref"
    THEN IndirectObject(obj.idnum, obj.generation, "resolver")
    ELSE IF obj.t = "stream"
    THEN StreamObject([k \in DOMAIN obj.d |-> subsume_object(obj.d[k])],
                      obj.encoded_data)
    ELSE IF obj.t = "dict"
    THEN DictionaryObject([k \in DOMAIN obj.d |-> subsume_object(obj.d[k])])
    ELSE IF obj.t = "array"
    THEN ArrayObject([i \in 1..Len(obj.s) |-> subsume_object(obj.s[i])])
    ELSE obj

\* HistoricalResolver.get_object: the resolver and the reader's cache
\* afterwards, and what the call returned or raised
resolver_get_object(self, cache, c, sections, ref) ==
    LET key == Reference(ref.idnum, ref.generation)
        last_change == get_last_change(c, ref.idnum)
        Subsumed(r) ==
            IF IsError(r.out)
            THEN [self |-> self, cache |-> r.cache, out |-> r.out]
            ELSE LET Cached(obj) ==
                         [self |-> [self EXCEPT !.cache = Put(@, key, obj)],
                          cache |-> r.cache, out |-> obj]
                 IN  Call(Cached, subsume_object(r.out))
    IN  IF key \in DOMAIN self.cache
        THEN [self |-> self, cache |-> cache, out |-> self.cache[key]]
        ELSE IF last_change.raised
        THEN [self |-> self, cache |-> cache, out |-> Raised("KeyError")]
        ELSE Call(Subsumed,
                  IF last_change.v <= self.revision
                  THEN reader_get_object(cache, c, sections, ref, -1)
                  ELSE reader_get_object(cache, c, sections, ref,
                                         self.revision))

\* how deep Python lets _collect_page_tree_refs recurse
RecursionLimit == 3

\* the entry of the collections below that tells that get_object raised
\* (idnum -1: KeyError, -2: PdfReadError) or that Python gave up (-3)
Failure(error) ==
    <<Reference(IF error = "KeyError" THEN -1
                ELSE IF error = "PdfReadError" THEN -2 ELSE -3, 0), <<>>>>
Failures(pairs) == {x \in pairs : x[1].idnum < 0}
ErrorOf(pair) ==
    IF pair[1].idnum = -1 THEN "KeyError"
    ELSE IF pair[1].idnum = -2 THEN "PdfReadError" ELSE "RecursionError"

\* what the resolver returns for ref: self(ref) without its caching
View(env, ref) ==
    resolver_get_object(env.self, env.cache, env.c, env.sections, ref).out

\* mutant: the new element is put behind the others
ConsBehind(list, head) == Append(list, head)

\* misc.ConsList: cons puts the new head in front
Cons(list, head) == <<head>> \o list
PathName(k) == <<"name", k>>
PathIndex(ix) == <<"ix", ix>>

\* _compute_paths_to_refs: what it adds to collected, as (ref, cur_path)
RECURSIVE compute_paths_to_refs(_, _, _, _, _)
compute_paths_to_refs(env, obj, cur_path, seen_in_path, is_page_tree) ==
    LET Below(o, seen) ==
            IF o.t \in {"dict", "stream"}
            THEN UNION {IF k = "/Parent" THEN {}
                        ELSE compute_paths_to_refs(
                                 env, o.d[k], Cons(cur_path, PathName(k)),
                                 seen,
                                 is_page_tree
                                   \/ (/\ cur_path = <<PathName("/Root")>>
                                       /\ k = "/Pages")) :
                        k \in DOMAIN o.d}
            ELSE IF o.t = "array"
            THEN UNION {compute_paths_to_refs(
                            env, o.s[i], Cons(cur_path, PathIndex(i - 1)),
                            seen, is_page_tree) :
                        i \in 1..Len(o.s)}
            ELSE {}
        Entered(ref) ==
            LET Got(o) ==
                    IF IsError(o) THEN {Failure(o.t)}
                    ELSE IF ~is_page_tree /\ ref \in env.page_tree_objs
                    THEN {}
                    ELSE Below(o, seen_in_path \cup {ref})
            IN  {<<ref, cur_path>>} \cup Call(Got, View(env, ref))
    IN  IF obj.t = "ref"
        THEN IF Reference(obj.idnum, obj.generation) \in seen_in_path
             THEN {}
             ELSE Entered(Reference(obj.idnum, obj.generation))
        ELSE Below(obj, seen_in_path)

\* _collect_page_tree_refs: the references it yields, as (ref, <<>>)
RECURSIVE collect_page_tree_refs(_, _, _)
collect_page_tree_refs(env, pages_obj, depth) ==
    IF depth > RecursionLimit THEN {Failure("RecursionError")}
    ELSE IF "/Kids" \notin DOMAIN pages_obj.d THEN {Failure("KeyError")}
    ELSE LET kids == pages_obj.d["/Kids"].s
             OfKid(kid) ==
                 LET Got(o) ==
                         IF IsError(o) THEN {Failure(o.t)}
                         ELSE IF /\ o.t \in {"dict", "stream"}
                                 /\ "/Type" \in DOMAIN o.d
                                 /\ o.d["/Type"] = NameObject("/Pages")
                         THEN collect_page_tree_refs(env, o, depth + 1)
                         ELSE {}
                 IN  {<<Reference(kid.idnum, kid.generation), <<>>>>}
                       \cup Call(Got, View(env, Reference(kid.idnum,
                                                          kid.generation)))
         IN  UNION {OfKid(kids[i]) : i \in 1..Len(kids)}

\* HistoricalResolver.root_ref
root_ref(trailer, revision) ==
    LET ref == raw_get(trailer, "/Root", revision)
    IN  Reference(ref.idnum, ref.generation)

\* the resolver's cache once every reference in visited was asked for
Remembered(env, visited) ==
    [ref \in (DOMAIN env.self.cache) \cup visited |->
        IF ref \in DOMAIN env.self.cache THEN env.self.cache[ref]
        ELSE View(env, ref)]

\* the reader's cache once every reference in visited was asked for: those
\* not changed after the revision are read through it
ReaderRemembered(env, visited) ==
    LET shared == {ref \in visited :
                     get_last_change(env.c, ref.idnum).v <= env.self.revision}
        known == {<<ref.generation, ref.idnum>> : ref \in shared}
    IN  [ix \in (DOMAIN env.cache) \cup known |->
            IF ix \in DOMAIN env.cache THEN env.cache[ix]
            ELSE read_object(env.sections,
                             xref_getitem(env.c, Reference(ix[2], ix[1])))]

\* HistoricalResolver._load_reverse_xref_cache: the resolver and the
\* reader's cache afterwards, and the error if one was raised
load_reverse_xref_cache(self, cache, c, sections, trailer) ==
    LET env0 == [self |-> self, cache |-> cache, c |-> c,
                 sections |-> sections, page_tree_objs |-> {}]
        root == View(env0, root_ref(trailer, self.revision))
        pages_ref == Reference(root.d["/Pages"].idnum,
                               root.d["/Pages"].generation)
        Walked(page_tree) ==
            LET env == [env0 EXCEPT !.page_tree_objs =
                                       {x[1] : x \in page_tree}]
                Indexed(collected) ==
                    LET visited == {x[1] : x \in collected \cup page_tree}
                                     \cup {root_ref(trailer, self.revision),
                                           pages_ref}
                        refs == {x[1] : x \in collected}
                    IN  IF Failures(collected) # {}
                        THEN [self |-> self, cache |-> cache,
                              raised |-> ErrorOf(CHOOSE x \in
                                                   Failures(collected) : TRUE)]
                        ELSE [self |-> [self EXCEPT
                                !.cache = Remembered(env0, visited),
                                !.loaded = TRUE,
                                !.usages =
                                  [ref \in refs |->
                                     {Reversed(x[2]) :
                                        x \in {y \in collected : y[1] = ref}}]],
                              cache |-> ReaderRemembered(env0, visited),
                              raised |-> ""]
            IN  IF Failures(page_tree) # {}
                THEN [self |-> self, cache |-> cache,
                      raised |-> ErrorOf(CHOOSE x \in Failures(page_tree) :
                                            TRUE)]
                ELSE Call(Indexed,
                          compute_paths_to_refs(env,
                                                DictionaryObject(self.trailer),
                                                <<>>, {}, FALSE))
    IN  IF self.loaded THEN [self |-> self, cache |-> cache, raised |-> ""]
        ELSE Call(Walked,
                  collect_page_tree_refs(env0, View(env0, pages_ref), 1))

\* the references an object holds, at any depth
RECURSIVE NestedRefs(_)
NestedRefs(obj) ==
    IF obj.t = "ref" THEN {obj}
    ELSE IF obj.t \in {"dict", "stream"}
    THEN UNION {NestedRefs(obj.d[k]) : k \in DOMAIN obj.d}
    ELSE IF obj.t = "array"
    THEN UNION {NestedRefs(obj.s[i]) : i \in 1..Len(obj.s)}
    ELSE {}

\* HistoricalResolver.__init__
HistoricalResolver(trailer, revision) ==
    [revision |-> revision, cache |-> EmptyDict,
     trailer |-> flatten(trailer, revision),
     loaded |-> FALSE, usages |-> EmptyDict]

\* the trailers of a file, as _read_xrefs collects them: newest first
RECURSIVE Trailers(_, _)
Trailers(self, j) ==
    IF j < 0 THEN self
    ELSE Trailers(add_trailer_revision(self, TrailerOf(j)), j - 1)

\* the files: a first revision and up to MaxUpdates incremental updates
UpdateLists == UNION {[1..n -> Updates] : n \in 0..MaxUpdates}

\* the references asked for
HistRefs == {Reference(i, 0) : i \in 1..MaxObj}

\* file: the sections (newest first) and the trailer; xrefs: the cache that
\* read() built; cur: the reader's resolved_objects, holding the catalog
\* that __init__ looked at; made: the resolver; last: the latest call
InitHist ==
    /\ pc = Unused /\ startxref = Unused /\ kind = Unused
    /\ sh = Unused /\ cf = Unused /\ pkh = Unused
    /\ \E first \in FirstRevisions, ups \in UpdateLists :
        \E sections \in {Reversed(ups) \o <<first>>} :
        \E c \in {ReadSections(XRefCacheInit, sections, 0)} :
        \E trailer \in {Trailers(TrailerDictionary, Len(ups))} :
        \E revision \in 0..Len(ups) :
            /\ file = [sections |-> sections, trailer |-> trailer]
            /\ xrefs = c
            /\ cur = reader_get_object(EmptyDict, c, sections,
                                       Reference(1, 0), -1).cache
            /\ made = HistoricalResolver(trailer, revision)
    /\ last = [op |-> "init", ref |-> Reference(0, 0), via |-> "",
               revision |-> -1, out |-> Raised("none")]

\* resolver.get_object(ref)
HistGetObject ==
    /\ \E ref \in HistRefs :
        \E r \in {resolver_get_object(made, cur, xrefs, file.sections, ref)} :
            /\ made' = r.self
            /\ cur' = r.cache
            /\ last' = [op |-> "get_object", ref |-> ref, via |-> "resolver",
                        revision |-> made.revision, out |-> r.out]
    /\ UNCHANGED <<pc, xrefs, startxref, kind, file, sh, cf, pkh>>

\* get_object() on a reference held by the object returned last: the call
\* goes to the handler the reference is bound to
HistDereference ==
    /\ ~IsError(last.out)
    /\ \E n \in NestedRefs(last.out) :
        \E ref \in {Reference(n.idnum, n.generation)} :
        \E r \in {IF n.pdf = "resolver"
                   THEN resolver_get_object(made, cur, xrefs, file.sections,
                                            ref)
                   ELSE [self |-> made] @@
                        reader_get_object(cur, xrefs, file.sections, ref,
                                          -1)} :
            /\ made' = r.self
            /\ cur' = r.cache
            /\ last' = [op |-> "dereference", ref |-> ref, via |-> n.pdf,
                        revision |-> made.revision, out |-> r.out]
    /\ UNCHANGED <<pc, xrefs, startxref, kind, file, sh, cf, pkh>>

\* resolver._load_reverse_xref_cache()
HistLoadReverse ==
    /\ \E r \in {load_reverse_xref_cache(made, cur, xrefs, file.sections,
                                         file.trailer)} :
        /\ made' = r.self
        /\ cur' = r.cache
        /\ last' = [op |-> "load_reverse_xref_cache",
                    ref |-> Reference(0, 0), via |-> "resolver",
                    revision |-> made.revision,
                    out |-> Raised(IF r.raised = "" THEN "none"
                                   ELSE r.raised)]
    /\ UNCHANGED <<pc, xrefs, startxref, kind, file, sh, cf, pkh>>

\* reader.get_object(ref), and reader.get_object(ref, revision)
HistReaderGetObject ==
    /\ \E ref \in HistRefs, revision \in -1..(xrefs.xref_sections - 1) :
        \E r \in {reader_get_object(cur, xrefs, file.sections, ref,
                                     revision)} :
            /\ cur' = r.cache
            /\ last' = [op |-> "reader_get_object", ref |-> ref,
                        via |-> "reader", revision |-> revision,
                        out |-> r.out]
    /\ UNCHANGED <<pc, xrefs, startxref, kind, file, sh, cf, pkh, made>>

NextHist ==
    \/ HistGetObject
    \/ HistDereference
    \/ HistLoadReverse

SpecHist == InitHist /\ [][NextHist]_vars

\* the reader and a resolver of the first revision asked for objects in
\* turn, on the files whose first revision has a catalog that refers to
\* object 5 and an object 4 that refers to the page
InitHistReads ==
    /\ InitHist
    /\ made.revision = 0
    /\ file.sections[Len(file.sections)][1].obj = Catalog(Ind(5))
    /\ file.sections[Len(file.sections)][4].obj
         = DictionaryObject([k \in {"/P"} |-> Ind(3)])

NextHistReads ==
    \/ HistGetObject
    \/ HistReaderGetObject

SpecHistReads == InitHistReads /\ [][NextHistReads]_vars

(***************************************************************************)
(* C12: historical subsumption                                             *)
(***************************************************************************)
\* the sections of revisions <= r that write ref (as indices of sections)
WritingSections(ref, r) ==
    {k \in (Len(file.sections) - r)..Len(file.sections) :
        \E p \in 1..Len(file.sections[k]) :
            /\ file.sections[k][p].id = ref.idnum
            /\ file.sections[k][p].gen = ref.generation}

\* the object that the newest revision <= r that writes ref gives it
ContentAt(ref, r) ==
    LET k == CHOOSE k \in WritingSections(ref, r) :
                 \A o \in WritingSections(ref, r) : k <= o
        p == CHOOSE p \in 1..Len(file.sections[k]) :
                 /\ file.sections[k][p].id = ref.idnum
                 /\ file.sections[k][p].gen = ref.generation
    IN  file.sections[k][p].obj

\* an object with the handlers of its references left out
RECURSIVE Unbound(_)
Unbound(obj) ==
    IF obj.t = "ref" THEN IndirectObject(obj.idnum, obj.generation, "")
    ELSE IF obj.t = "stream"
    THEN StreamObject([k \in DOMAIN obj.d |-> Unbound(obj.d[k])],
                      obj.encoded_data)
    ELSE IF obj.t = "dict"
    THEN DictionaryObject([k \in DOMAIN obj.d |-> Unbound(obj.d[k])])
    ELSE IF obj.t = "array"
    THEN ArrayObject([i \in 1..Len(obj.s) |-> Unbound(obj.s[i])])
    ELSE obj

\* C12: every indirect reference nested at any depth (in dictionaries,
\* stream dictionaries and arrays) of an object that a HistoricalResolver
\* at revision r returned from get_object is bound to that resolver, and
\* dereferencing it gives the object as of revision r; this holds for
\* objects that came from the reader's shared cache (last change <= r) and
\* for objects read with an explicit revision.
C12_Subsumption ==
    (last.op \in {"get_object", "dereference"} /\ ~IsError(last.out))
        => /\ last.via = "resolver"
           /\ \A n \in NestedRefs(last.out) : n.pdf = "resolver"
           /\ WritingSections(last.ref, made.revision) # {}
           /\ Unbound(last.out)
                = Unbound(ContentAt(last.ref, made.revision))

\* C12 witness: at revision 0 of a file with an update, a reference held in
\* an array of an object that is older than the revision is dereferenced,
\* and the object it names is one that the update rewrote
C12_Witness ==
    /\ last.op = "dereference"
    /\ ~IsError(last.out)
    /\ made.revision = 0
    /\ Len(file.sections) = 2
    /\ last.ref.idnum = 4
    /\ file.sections[1][1].id = 4
    /\ Unbound(last.out) # Unbound(file.sections[1][1].obj)
    /\ NestedRefs(last.out) # {}

(***************************************************************************)
(* C13: the reverse-path index                                             *)
(***************************************************************************)
\* the value that a path names, stepping from obj through the components
\* from the i-th on: an indirect object met on the way is looked up in the
\* resolver's revision, the value the last component names is not
RECURSIVE Stepped(_, _, _)
Stepped(obj, path, i) ==
    IF i > Len(path) THEN obj
    ELSE LET o == IF obj.t # "ref" THEN obj
                  ELSE IF WritingSections(obj, made.revision) = {}
                  THEN Raised("PdfReadError")
                  ELSE ContentAt(obj, made.revision)
             step == path[i]
         IN  IF /\ step[1] = "name"
                /\ o.t \in {"dict", "stream"}
                /\ step[2] \in DOMAIN o.d
             THEN Stepped(o.d[step[2]], path, i + 1)
             ELSE IF /\ step[1] = "ix"
                     /\ o.t = "array"
                     /\ step[2] + 1 \in 1..Len(o.s)
             THEN Stepped(o.s[step[2] + 1], path, i + 1)
             ELSE Raised("KeyError")

C24_HistoricalReadsBypassCache ==
    [][ /\ (last'.op = "reader_get_object" /\ last'.revision # -1)
              => /\ cur' = cur
                 /\ last'.out =
                      IF WritingSections(last'.ref, last'.revision) = {}
                      THEN Raised("PdfReadError")
                      ELSE ContentAt(last'.ref, last'.revision)
        /\ (last'.op = "reader_get_object" /\ last'.revision = -1
               /\ ~IsError(last'.out))
              => last'.out = ContentAt(last'.ref, Len(file.sections) - 1)
        /\ \A ix \in DOMAIN cur :
              /\ ix \in DOMAIN cur'
              /\ cur'[ix] = cur[ix]
        /\ \A ix \in DOMAIN cur' :
              \A n \in NestedRefs(cur'[ix]) : n.pdf = "reader" ]_vars

\* an object that an update rewrote was read at revision 0 while the
\* reader's cache held its latest version, and the cache holds it still
C24_Witness ==
    /\ last.op = "reader_get_object" /\ last.revision = 0
    /\ ~IsError(last.out)
    /\ <<0, last.ref.idnum>> \in DOMAIN cur
    /\ cur[<<0, last.ref.idnum>>] # last.out
    /\ cur[<<0, last.ref.idnum>>]
         = ContentAt(last.ref, Len(file.sections) - 1)

(***************************************************************************)
(* HistoricalResolver.collect_dependencies                                 *)
(***************************************************************************)
\* XRefCache.get_introducing_revision (v), or the IndexError of indexing
\* the empty list that history gives for a reference it does not know
get_introducing_revision(c, ref) ==
    LET ix == <<ref.generation, ref.idnum>>
        ref_hist == IF ix \in DOMAIN c.history THEN c.history[ix] ELSE <<>>
    IN  IF ref_hist = <<>> THEN [raised |-> TRUE, v |-> 0]
        ELSE [raised |-> FALSE,
              v |-> c.xref_sections - 1 - ref_hist[Len(ref_hist)][1]]

\* obj.values() of a dictionary or stream, or the items of an array
RECURSIVE ValuesOf(_, _)
ValuesOf(d, keys) ==
    IF keys = {} THEN <<>>
    ELSE LET k == CHOOSE k \in keys : TRUE
         IN  <<d[k]>> \o ValuesOf(d, keys \ {k})

ChildrenOf(obj) ==
    IF obj.t \in {"dict", "stream"} THEN ValuesOf(obj.d, DOMAIN obj.d)
    ELSE IF obj.t = "array" THEN obj.s
    ELSE <<>>

\* _collect_indirect_references on each of objs in turn; since_revision -1
\* is None.  The result tells the set seen afterwards, the references that
\* were looked up, and the error that was raised, with the reference at
\* which it was
RECURSIVE collect_indirect_references(_, _, _, _, _)
collect_indirect_references(env, objs, seen, visited, since_revision) ==
    IF objs = <<>>
    THEN [seen |-> seen, visited |-> visited, raised |-> "",
          at |-> Reference(0, 0)]
    ELSE
    LET obj == Head(objs)
        ref == Reference(obj.idnum, obj.generation)
        Rest(r) ==
            IF r.raised # "" THEN r
            ELSE collect_indirect_references(env, Tail(objs), r.seen,
                                             r.visited, since_revision)
        Entered(intro) ==
            IF since_revision # -1 /\ intro.raised
            THEN [seen |-> seen, visited |-> visited,
                  raised |-> "IndexError", at |-> ref]
            ELSE IF since_revision # -1 /\ intro.v < since_revision
            THEN [seen |-> seen, visited |-> visited, raised |-> "",
                  at |-> Reference(0, 0)]
            ELSE LET Got(o) ==
                         IF IsError(o)
                         THEN [seen |-> seen \cup {ref}, visited |-> visited,
                               raised |-> o.t, at |-> ref]
                         ELSE collect_indirect_references(
                                  env, ChildrenOf(o), seen \cup {ref},
                                  visited \cup {ref}, since_revision)
                 IN  Call(Got, View(env, ref))
    IN  IF obj.t # "ref"
        THEN Call(Rest, collect_indirect_references(
                            env, ChildrenOf(obj), seen, visited,
                            since_revision))
        ELSE IF ref \in seen
        THEN Call(Rest, [seen |-> seen, visited |-> visited, raised |-> "",
                         at |-> Reference(0, 0)])
        ELSE Call(Rest, Call(Entered,
                             get_introducing_revision(env.c, ref)))

\* the object that collect_dependencies is called on: an indirect object
\* that the resolver returned, or (for reference 0) its trailer view
ObjectOf(ref) ==
    IF ref.idnum = 0 THEN DictionaryObject(made.trailer)
    ELSE IndirectObject(ref.idnum, ref.generation, "resolver")

\* resolver.collect_dependencies(obj, since_revision)
HistCollectDependencies ==
    /\ \E ref \in HistRefs \cup {Reference(0, 0)},
          since_revision \in -1..(xrefs.xref_sections - 1) :
        \E env \in {[self |-> made, cache |-> cur, c |-> xrefs,
                     sections |-> file.sections, page_tree_objs |-> {}]} :
        \E r \in {collect_indirect_references(env, <<ObjectOf(ref)>>, {}, {},
                                              since_revision)} :
            /\ made' = [made EXCEPT !.cache = Remembered(env, r.visited)]
            /\ cur' = ReaderRemembered(env, r.visited)
            /\ xrefs' = IF r.raised = "IndexError"
                        THEN history_getitem(xrefs, <<r.at.generation,
                                                      r.at.idnum>>)
                        ELSE xrefs
            /\ last' = [op |-> "collect_dependencies", ref |-> ref,
                        via |-> "resolver", revision |-> since_revision,
                        out |-> IF r.raised # "" THEN Raised(r.raised)
                                ELSE [t |-> "refs", refs |-> r.seen]]
    /\ UNCHANGED <<pc, startxref, kind, file, sh, cf, pkh>>

\* a resolver asked for objects and for dependencies
NextHistDeps ==
    \/ HistGetObject
    \/ HistCollectDependencies

SpecHistDeps == InitHist /\ [][NextHistDeps]_vars

(***************************************************************************)
(* C22: collect_dependencies                                               *)
(***************************************************************************)
\* the references that an object holds without an indirect object between
DirectRefs(obj) ==
    {Reference(n.idnum, n.generation) : n \in NestedRefs(obj)}

\* the revision whose section is the oldest to write ref (-1: none does)
IntroducedAt(ref) ==
    LET writing == WritingSections(ref, Len(file.sections) - 1)
    IN  IF writing = {} THEN -1
        ELSE Len(file.sections)
               - (CHOOSE k \in writing : \A o \in writing : o <= k)

\* ref was introduced at since_revision or later (-1: any reference)
IntroducedSince(ref, since_revision) ==
    since_revision = -1 \/ IntroducedAt(ref) >= since_revision

\* the references reached from those in found in at most n more steps, each
\* through an object as the revision has it, all introduced at
\* since_revision or later
RECURSIVE ReachedFrom(_, _, _, _)
ReachedFrom(found, revision, since_revision, n) ==
    IF n = 0 THEN found
    ELSE ReachedFrom(
             found \cup
               {r \in UNION {DirectRefs(ContentAt(q, revision)) :
                               q \in {x \in found :
                                        WritingSections(x, revision) # {}}} :
                   IntroducedSince(r, since_revision)},
             revision, since_revision, n - 1)

\* the references reachable from obj along paths on which every reference
\* was introduced at since_revision or later
Dependencies(obj, revision, since_revision) ==
    ReachedFrom({r \in DirectRefs(obj) :
                    IntroducedSince(r, since_revision)},
                revision, since_revision, MaxObj)

\* C22: collect_dependencies(obj, since_revision) returns, for every object
\* graph, also a cyclic one, exactly the references reachable from obj
\* through dictionaries, arrays and dereferenced indirect objects along
\* paths on which every reference was introduced at a revision >=
\* since_revision; with since_revision = None, every reachable reference.
C22_Dependencies ==
    last.op = "collect_dependencies"
      => /\ last.out.t = "refs"
         /\ last.out.refs
              = Dependencies(ObjectOf(last.ref), made.revision, last.revision)

\* the same whenever the call returns
DependenciesWhenReturned ==
    (last.op = "collect_dependencies" /\ last.out.t = "refs")
      => last.out.refs
           = Dependencies(ObjectOf(last.ref), made.revision, last.revision)

\* the call raises only where it meets a reference that the resolver's
\* revision has no object for
DependenciesRaise ==
    (last.op = "collect_dependencies" /\ last.out.t # "refs")
      => \E r \in Dependencies(ObjectOf(last.ref), made.revision, -1)
                    \cup DirectRefs(ObjectOf(last.ref)) :
            WritingSections(r, made.revision) = {}

\* the dependencies of the catalog since revision 1 were collected on a
\* file whose update wrote object 5, which the older catalog refers to:
\* the catalog is left out and object 5 with it
Dependencies_Example ==
    /\ last.op = "collect_dependencies" /\ last.out.t = "refs"
    /\ last.revision = 1 /\ last.ref.idnum = 1 /\ made.revision = 1
    /\ last.out.refs = {}
    /\ IntroducedAt(Reference(5, 0)) = 1
    /\ Reference(5, 0)
         \in Dependencies(ObjectOf(last.ref), made.revision, -1)

\* a catalog that refers to an object 5 that the file does not have: with
\* no since_revision the call raises KeyError, with one IndexError
DependenciesKeyError_Example ==
    /\ last.op = "collect_dependencies" /\ last.ref.idnum = 1
    /\ last.revision = -1 /\ last.out.t = "KeyError"
    /\ Len(file.sections) = 1

DependenciesIndexError_Example ==
    /\ last.op = "collect_dependencies" /\ last.ref.idnum = 5
    /\ last.revision = 0 /\ last.out.t = "IndexError"
    /\ Len(file.sections) = 1

====
